---- MODULE Spec2Model ----
(***************************************************************************)
(* The reminder lifecycle pipeline of fixture-scout-ai:                    *)
(*   scout_service        process_fixtures_for_user   (Reminder Generator) *)
(*   reminder_service     fetch_and_process_due_reminders    (Scheduler)   *)
(*   notification_service process_single_notification   (Channel Sender)   *)
(*   reminder_service     process_reminder_status_update   (Reconciler)    *)
(* The Firestore "reminders" collection is the shared store; the two       *)
(* Pub/Sub channels are bags of messages in flight.  Store reads, writes   *)
(* and batch commits are the atomic steps; they are assumed to succeed     *)
(* unless an action says otherwise.  Timestamps (created_at, updated_at),  *)
(* the prompt snapshots and reason_for_selection are left out of the       *)
(* reminder documents.                                                     *)
(*                                                                         *)
(* Specifications:                                                         *)
(*   Spec           the whole pipeline, the clock running                  *)
(*   SpecGenerator  generator passes and overlapping scheduler runs        *)
(*   SpecSender     scheduler runs and the Channel Sender with a           *)
(*                  notification log whose writes can fail                 *)
(*   SpecScheduler  overlapping scheduler runs over a store with a         *)
(*                  malformed document, read errors, an unset project id   *)
(*   SpecReconciler the Status Reconciler fed StatusEvents of any outcome  *)
(*   SpecStatusWriters the scheduler, the Sender and the Reconciler over   *)
(*                  the scheduler's store                                  *)
(*   SpecCleanup    SpecGenerator with delete_future_reminders             *)
(*   SpecBatches    the generator around its chunk and batch limits        *)
(*   SpecCrash      the generator with passes that stop between batches    *)
(*   SpecSenderOrder the Sender's background task followed step by step    *)
(*   SpecSenderStop the same with a Sender that may stop at any moment     *)
(*   SpecSendResults the Sender fed dispatch messages with and without     *)
(*                  contact targets                                        *)
(*   SpecWindow     generator passes while fixtures leave the window       *)
(*   SpecRegenerate generator passes and scheduler runs one after another  *)
(*   SpecWriteFaults scheduler runs one after another with status writes   *)
(*                  that the store may reject                              *)
(***************************************************************************)
EXTENDS Integers, Sequences, FiniteSets, Bags, TLC

\* ------------------------------------------------------------- bounds
MaxPasses == 2           \* generation passes started in one behaviour
MaxSchedulerRuns == 2    \* scheduler invocations started in one behaviour
MaxTime == 2             \* the clock runs from 0 to MaxTime
MaxRedeliver == 1        \* redeliveries the channels make in one behaviour
MaxSenderRuns == 1       \* scheduler invocations in SpecSender
MaxFixtures == 61        \* in-window fixtures in SpecBatches
MaxTriggers == 980       \* triggers of one selection in SpecBatches

\* ---------------------------------------------------- program constants
MAX_IN_QUERY_VALUES == 30
MAX_OPS_PER_WRITE_BATCH == 490
CREATE_BATCH_LIMIT == 490
QUERY_LIMIT == 200
FIXTURE_LOOKOUT_WINDOW_DAYS == 14
ERROR_DETAIL_LIMIT == 500

NULL == "null"
EMAIL_NOTIFICATIONS_TOPIC_ID == "email-notifications-topic"
PHONE_MOCK_NOTIFICATIONS_TOPIC_ID == "mock-phone-call-notifications-topic"

\* ------------------------------------------------------------- helpers
Min(a, b) == IF a <= b THEN a ELSE b

StartsWith(s, p) == Len(s) >= Len(p) /\ SubSeq(s, 1, Len(p)) = p

\* Python's `sub in s` on strings.
Contains(sub, s) ==
    \E i \in 1..(Len(s) - Len(sub) + 1) : SubSeq(s, i, i + Len(sub) - 1) = sub

\* Firestore streams a query without order_by in document-name order.
SortedIds(S) ==
    IF S = {} THEN <<>>
    ELSE LET lo == CHOOSE x \in S : \A y \in S : x <= y
             hi == CHOOSE x \in S : \A y \in S : y <= x
             InS(x) == x \in S
         IN SelectSeq([k \in 1..(hi - lo + 1) |-> lo + k - 1], InS)

Range(s) == {s[i] : i \in 1..Len(s)}

VARIABLES
    now,          \* the wall clock
    fixtures,     \* fixtures collection: fixture_id -> match_datetime_utc
    users,        \* users collection: user_id -> user document
    settings,     \* reminder_service settings: GCP_PROJECT_ID
    reminders,    \* reminders collection: reminder_id -> reminder document
    nextId,       \* the next fresh reminder_id (uuid4 never repeats)
    gen,          \* the generation pass in progress (process_fixtures_for_user)
    sched,        \* the scheduler runs (fetch_and_process_due_reminders)
    dispatchChan, \* dispatch messages in flight (email and phone-mock topics)
    statusChan,   \* StatusEvents in flight (notification-status-updates-topic)
    attemptLog,   \* notification_log collection (records without ids and times)
    redelivered,  \* redeliveries made so far
    passes,       \* generation passes started so far
    runs,         \* scheduler invocations started so far
    hist,         \* history of the behaviour, read only by the properties
    tasks         \* the Sender's background tasks, in the order they were
                  \* added, when the Sender is followed step by step

vars == <<now, fixtures, users, settings, reminders, nextId, gen, sched, dispatchChan,
          statusChan, attemptLog, redelivered, passes, runs, hist, tasks>>

\* ------------------------------------------------------ external data
Users == {"u1", "u2"}
Runs == {1, 2}           \* scheduler invocations that may overlap

\* fixtures collection (read-only here): two fixtures with distinct kickoffs.
FixtureStore == [f \in {"f1", "f2"} |-> IF f = "f1" THEN 0 ELSE 1]

UserDoc(uid, email, phone) ==
    [exists |-> TRUE, user_id |-> uid, name |-> uid, email |-> email,
     phone_number |-> phone]

NoUserDoc ==
    [exists |-> FALSE, user_id |-> NULL, name |-> NULL, email |-> NULL,
     phone_number |-> NULL]

\* users collection: u1 is always complete; u2 has no phone number, or has no
\* document, or has a document without a valid email.
UserStores ==
    { [u \in Users |-> IF u = "u1" THEN UserDoc("u1", "u1@example.com", "555")
                       ELSE d]
      : d \in { UserDoc("u2", "u2@example.com", NULL),
                NoUserDoc,
                UserDoc("u2", "not-an-email", NULL) } }

\* ------------------------------------------------ generation responses
Trig(offset, mode, msg) ==
    [reminder_offset_minutes_before_kickoff |-> offset,
     reminder_mode |-> mode, custom_message |-> msg]

Sel(fid, score, trigs) ==
    [fixture_id |-> fid, reason |-> "r", importance_score |-> score,
     reminder_triggers |-> trigs]

\* What generate_content_async can return: a blocked prompt, no text at all,
\* text that is not JSON, or a JSON list of items.
LLMResponses ==
    { [kind |-> "blocked"],
      [kind |-> "no_text"],
      [kind |-> "invalid_json"],
      [kind |-> "json", items |-> <<>>],
      [kind |-> "json", items |-> <<Sel("f1", 4, <<Trig(1, "email", "go")>>)>>],
      [kind |-> "json",
       items |-> <<Sel("f9", 3, <<Trig(1, "email", "go")>>),
                   Sel("f2", 2, <<Trig(0, "phone_call_mock", "call")>>)>>],
      [kind |-> "json",
       items |-> <<Sel("f1", 4, <<Trig(1, "email", "go")>>),
                   Sel("f2", 7, <<Trig(1, "email", "go")>>)>>],
      [kind |-> "json",
       items |-> <<Sel("f1", 4, <<[reminder_mode |-> "email",
                                   custom_message |-> "go"]>>)>>] }

\* pydantic validation of LLMReminderTrigger.
ValidLLMReminderTrigger(t) ==
    /\ DOMAIN t = {"reminder_offset_minutes_before_kickoff", "reminder_mode",
                   "custom_message"}
    /\ t.reminder_offset_minutes_before_kickoff \in Int

\* pydantic validation of LLMSelectedFixtureResponse.
ValidLLMSelectedFixtureResponse(item) ==
    /\ DOMAIN item = {"fixture_id", "reason", "importance_score",
                      "reminder_triggers"}
    /\ item.importance_score \in 1..5
    /\ \A i \in 1..Len(item.reminder_triggers) :
          ValidLLMReminderTrigger(item.reminder_triggers[i])

RECURSIVE ValidItems(_, _, _)
ValidItems(items, i, acc) ==
    IF i > Len(items) THEN acc
    ELSE ValidItems(items, i + 1,
            IF ValidLLMSelectedFixtureResponse(items[i])
            THEN Append(acc, items[i]) ELSE acc)

\* _call_llm_and_parse_response skipping the items that fail validation
\* instead of raising.
call_llm_and_parse_response_skipping(resp) ==
    CASE resp.kind = "blocked" -> [error |-> "LLMResponseError", selected |-> <<>>]
      [] resp.kind = "no_text" -> [error |-> NULL, selected |-> <<>>]
      [] resp.kind = "invalid_json" ->
            [error |-> "LLMResponseError", selected |-> <<>>]
      [] OTHER -> [error |-> NULL, selected |-> ValidItems(resp.items, 1, <<>>)]

\* _call_llm_and_parse_response: the parsed selections, or the error raised.
call_llm_and_parse_response(resp) ==
    CASE resp.kind = "blocked" -> [error |-> "LLMResponseError", selected |-> <<>>]
      [] resp.kind = "no_text" -> [error |-> NULL, selected |-> <<>>]
      [] resp.kind = "invalid_json" ->
            [error |-> "LLMResponseError", selected |-> <<>>]
      [] OTHER ->
            IF \A i \in 1..Len(resp.items) :
                  ValidLLMSelectedFixtureResponse(resp.items[i])
            THEN [error |-> NULL, selected |-> resp.items]
            ELSE [error |-> "LLMResponseError", selected |-> <<>>]

RECURSIVE SortedFixtures(_, _)
\* order_by("match_datetime_utc")
SortedFixtures(fs, S) ==
    IF S = {} THEN <<>>
    ELSE LET m == CHOOSE x \in S : \A y \in S : fs[x] <= fs[y]
         IN <<m>> \o SortedFixtures(fs, S \ {m})

\* _fetch_upcoming_fixtures: ids of the fixtures with now <= kickoff <= cutoff.
fetch_upcoming_fixtures(fs, t) ==
    SortedFixtures(fs, {f \in DOMAIN fs :
        fs[f] >= t /\ fs[f] <= t + FIXTURE_LOOKOUT_WINDOW_DAYS * 1440})

\* --------------------------------------------------- reminder documents
\* ReminderDoc as _store_new_reminders builds it (reminder_id is the key).
ReminderDoc(rid, uid, item, trigger, kickoff) ==
    [reminder_id |-> rid,
     user_id |-> uid,
     fixture_id |-> item.fixture_id,
     importance_score |-> item.importance_score,
     kickoff_time_utc |-> kickoff,
     reminder_offset_minutes_before_kickoff |->
         trigger.reminder_offset_minutes_before_kickoff,
     reminder_mode |-> trigger.reminder_mode,
     custom_message |-> trigger.custom_message,
     actual_reminder_time_utc |->
         kickoff - trigger.reminder_offset_minutes_before_kickoff,
     status |-> "pending",
     error_detail |-> NULL,
     published_to_topic |-> NULL,
     last_notification_outcome |-> NULL,
     last_notification_error_detail |-> NULL]

\* the inner loop of _store_new_reminders leaving after its first trigger
TriggerDocs_first_only(uid, item, kickoff, j, acc) ==
    IF item.reminder_triggers = <<>> THEN acc
    ELSE Append(acc, ReminderDoc(0, uid, item, item.reminder_triggers[1],
                                 kickoff))

\* the inner loop of _store_new_reminders over one selection's triggers,
\* from the j-th on: one document per trigger, in the triggers' order
TriggerDocs(uid, item, kickoff, j, acc) ==
    acc \o [k \in 1..(Len(item.reminder_triggers) - j + 1) |->
               ReminderDoc(0, uid, item, item.reminder_triggers[j + k - 1],
                           kickoff)]

RECURSIVE store_new_reminders_stopping(_, _, _, _, _, _)
\* _store_new_reminders leaving its loop at a selection whose fixture_id is
\* not in original_fixtures_map instead of going on to the next selection.
store_new_reminders_stopping(uid, selected_matches, fs, fixture_ids, i, acc) ==
    IF i > Len(selected_matches) THEN acc
    ELSE LET item == selected_matches[i]
         IN IF item.fixture_id \notin Range(fixture_ids)
            THEN acc
            ELSE store_new_reminders_stopping(uid, selected_matches, fs,
                    fixture_ids, i + 1,
                    TriggerDocs(uid, item, fs[item.fixture_id], 1, acc))

RECURSIVE store_new_reminders(_, _, _, _, _, _)
\* _store_new_reminders: the documents put into the create batches, in order;
\* a selection whose fixture_id is not in original_fixtures_map is skipped.
store_new_reminders(uid, selected_matches, fs, fixture_ids, i, acc) ==
    IF i > Len(selected_matches) THEN acc
    ELSE LET item == selected_matches[i]
         IN IF item.fixture_id \notin Range(fixture_ids)
            THEN store_new_reminders(uid, selected_matches, fs, fixture_ids,
                                     i + 1, acc)
            ELSE store_new_reminders(uid, selected_matches, fs, fixture_ids,
                    i + 1, TriggerDocs(uid, item, fs[item.fixture_id], 1, acc))

\* The user's reminders without ids and status, as a bag.
ContentOf(doc) ==
    [fixture_id |-> doc.fixture_id,
     reminder_offset_minutes_before_kickoff |->
         doc.reminder_offset_minutes_before_kickoff,
     reminder_mode |-> doc.reminder_mode,
     custom_message |-> doc.custom_message,
     importance_score |-> doc.importance_score,
     actual_reminder_time_utc |-> doc.actual_reminder_time_utc]

UserContent(rs, uid) ==
    LET ids == {id \in DOMAIN rs : rs[id].user_id = uid}
        C == {ContentOf(rs[id]) : id \in ids}
    IN [c \in C |-> Cardinality({id \in ids : ContentOf(rs[id]) = c})]

\* ---------------------------------------------------------------- Init
GenIdle ==
    [pc |-> "idle", user_id |-> NULL, result |-> NULL, selected |-> <<>>,
     fixture_ids |-> <<>>, i |-> 0, refs |-> <<>>, to_create |-> <<>>]

\* A scheduler invocation at rest.  total, queued, failed and skipped are
\* the counters total_due_reminders, successfully_queued, failed_to_queue
\* and skipped_due_to_data_issues of the run; at rest they are the summary
\* the last run returned, with valid its valid_reminders_processed when
\* has_valid says the summary has that key.  published counts the
\* publishes of the run that succeeded.
SchedIdle == [pc |-> "idle", batch |-> <<>>, k |-> 0, new_status |-> NULL,
              topic |-> NULL, skipped |-> 0, total |-> 0, queued |-> 0,
              failed |-> 0, valid |-> 0, has_valid |-> FALSE,
              published |-> 0]

\* History of the behaviour:
\*   last      the last pass that completed: its user, selections and
\*             in-window fixtures, and the user's reminders it left
\*   calm      no scheduler step has been taken since that pass completed
\*   repeated  that pass had the user, selections and in-window fixtures of
\*             the completed pass before it, with no scheduler step between
\*   published how many dispatch messages were published per reminder_id
\*   chunks    the chunks queried by the last pass that was started, in order
\*   deletes   the sizes of the delete batches that pass committed, in order
\*   commits   the sizes of the create batches that pass committed, in order
\*   crashed   the last pass that stopped between two of its steps; valid
\*             while no pass has completed since
\*   start_id  the first reminder_id that was free when that pass started
NoCrash ==
    [valid |-> FALSE, user_id |-> NULL, selected |-> <<>>,
     fixture_ids |-> <<>>, deletes |-> <<>>, commits |-> <<>>]

HistInit ==
    [last |-> [valid |-> FALSE, user_id |-> NULL, selected |-> <<>>,
               fixture_ids |-> <<>>, content |-> <<>>],
     calm |-> FALSE,
     repeated |-> FALSE,
     published |-> <<>>,
     chunks |-> <<>>,
     deletes |-> <<>>,
     commits |-> <<>>,
     crashed |-> NoCrash,
     start_id |-> 1]

Init ==
    /\ now = 0
    /\ fixtures = FixtureStore
    /\ users \in UserStores
    /\ settings \in {[GCP_PROJECT_ID |-> p] : p \in {"fixture-scout"}}
    /\ reminders = <<>>
    /\ nextId = 1
    /\ gen = GenIdle
    /\ sched = [r \in Runs |-> SchedIdle]
    /\ dispatchChan = EmptyBag
    /\ statusChan = EmptyBag
    /\ attemptLog = {}
    /\ redelivered = 0
    /\ passes = 0
    /\ runs = 0
    /\ hist = HistInit
    /\ tasks = <<>>

\* ------------------------------------------------- Reminder Generator
\* The slice one id short: fixture_ids_in_llm_input[i : i + 30 - 1].
ChunkFixtureIds_short(fixture_ids, i) ==
    SubSeq(fixture_ids, i + 1,
           Min(i + MAX_IN_QUERY_VALUES - 1, Len(fixture_ids)))

\* fixture_ids_in_llm_input[i : i + MAX_IN_QUERY_VALUES] (i counts from 0)
ChunkFixtureIds(fixture_ids, i) ==
    SubSeq(fixture_ids, i + 1, Min(i + MAX_IN_QUERY_VALUES, Len(fixture_ids)))

\* existing_reminders_query with the fixture filter lost: the user's pending
\* reminders for the first fixture of the chunk only.
existing_reminders_query_first_only(rs, uid, chunk_fixture_ids) ==
    SortedIds({id \in DOMAIN rs :
        /\ rs[id].user_id = uid
        /\ rs[id].fixture_id = chunk_fixture_ids[1]
        /\ rs[id].status = "pending"})

\* existing_reminders_query with the user filter lost: the pending
\* reminders of any user for the fixtures of the chunk.
existing_reminders_query_any_user(rs, uid, chunk_fixture_ids) ==
    SortedIds({id \in DOMAIN rs :
        /\ rs[id].fixture_id \in Range(chunk_fixture_ids)
        /\ rs[id].status = "pending"})

\* existing_reminders_query of _clear_old_pending_reminders: the references
\* of the user's pending reminders for the fixtures of one chunk.
existing_reminders_query(rs, uid, chunk_fixture_ids) ==
    SortedIds({id \in DOMAIN rs :
        /\ rs[id].user_id = uid
        /\ rs[id].fixture_id \in Range(chunk_fixture_ids)
        /\ rs[id].status = "pending"})

\* The pass after it returned or raised: only its outcome is kept.
Returned(uid, pc, result) ==
    [GenIdle EXCEPT !.pc = pc, !.user_id = uid, !.result = result]

\* What follows the clearing of old reminders: _store_new_reminders, whose
\* last statement commits only a batch that is not empty.
AfterClear(g) ==
    LET docs == store_new_reminders(g.user_id, g.selected, fixtures,
                                    g.fixture_ids, 1, <<>>)
    IN IF docs = <<>>
       THEN Returned(g.user_id, "done", "ok")
       ELSE [g EXCEPT !.pc = "store", !.i = 0, !.refs = <<>>,
                      !.to_create = docs]

\* The next iteration of the chunk loop of _clear_old_pending_reminders.
NextChunk(g) ==
    IF g.i + MAX_IN_QUERY_VALUES >= Len(g.fixture_ids)
    THEN AfterClear(g)
    ELSE [g EXCEPT !.pc = "clear_query", !.i = g.i + MAX_IN_QUERY_VALUES,
                   !.refs = <<>>]

\* History at the end of a step of the pass: when the step completes the
\* pass, the pass and the reminders it leaves to its user are recorded.
HistAfterPassStep(newgen, uid, selected, fixture_ids, rs) ==
    IF newgen.pc = "done" /\ newgen.result = "ok"
    THEN [hist EXCEPT
            !.last = [valid |-> TRUE, user_id |-> uid, selected |-> selected,
                      fixture_ids |-> fixture_ids,
                      content |-> UserContent(rs, uid)],
            !.calm = TRUE,
            !.repeated = /\ hist.last.valid
                         /\ hist.calm
                         /\ hist.last.user_id = uid
                         /\ hist.last.selected = selected
                         /\ hist.last.fixture_ids = fixture_ids,
            !.crashed = [hist.crashed EXCEPT !.valid = FALSE]]
    ELSE hist

\* process_fixtures_for_user up to step 4: preferences, upcoming fixtures, the
\* generation call and its parsing.  With selections it goes on to clear the
\* old pending reminders; with none it returns.
process_fixtures_for_user(uid, pref_ok, resp) ==
    /\ gen.pc \in {"idle", "done", "error"}
    /\ passes' = passes + 1
    /\ LET upcoming == fetch_upcoming_fixtures(fixtures, now)
           parsed == call_llm_and_parse_response(resp)
           newgen ==
               IF ~pref_ok
               THEN Returned(uid, "error", "ReminderProcessingError")
               ELSE IF upcoming = <<>>
               THEN Returned(uid, "done", "no_fixtures")
               ELSE IF parsed.error # NULL
               THEN Returned(uid, "error", parsed.error)
               ELSE IF parsed.selected = <<>>
               THEN Returned(uid, "done", "ok")
               ELSE [GenIdle EXCEPT !.pc = "clear_query",
                                    !.user_id = uid,
                                    !.selected = parsed.selected,
                                    !.fixture_ids = upcoming]
       IN /\ gen' = newgen
          /\ hist' = [HistAfterPassStep(newgen, uid, parsed.selected,
                                        upcoming, reminders)
                         EXCEPT !.chunks = <<>>, !.deletes = <<>>,
                                !.commits = <<>>, !.start_id = nextId]
    /\ UNCHANGED <<tasks, now, fixtures, users, settings, reminders, nextId, sched,
                   dispatchChan, statusChan, attemptLog, redelivered, runs>>

\* One chunk's query of _clear_old_pending_reminders.
clear_query_chunk ==
    /\ gen.pc = "clear_query"
    /\ LET chunk_fixture_ids == ChunkFixtureIds(gen.fixture_ids, gen.i)
           refs == existing_reminders_query(reminders, gen.user_id,
                                            chunk_fixture_ids)
           newgen == IF refs = <<>> THEN NextChunk(gen)
                     ELSE [gen EXCEPT !.pc = "clear_commit", !.refs = refs]
       IN /\ gen' = newgen
          /\ hist' = [HistAfterPassStep(newgen, gen.user_id, gen.selected,
                                        gen.fixture_ids, reminders)
                         EXCEPT !.chunks = Append(hist.chunks,
                                                  chunk_fixture_ids)]
    /\ UNCHANGED <<tasks, now, fixtures, users, settings, reminders, nextId, sched,
                   dispatchChan, statusChan, attemptLog, redelivered, passes,
                   runs>>

\* The documents a committed delete batch removes.
DeleteBatch(rs, batch) == [id \in DOMAIN rs \ Range(batch) |-> rs[id]]

\* The chunk's references deleted in one write batch, whatever their number.
delete_batch_size_whole(pending) == pending

\* The operations of the next committed delete batch when pending
\* references of the chunk are still to be deleted: the batch is committed
\* as soon as it holds MAX_OPS_PER_WRITE_BATCH operations, and after the
\* loop when it is not empty.
delete_batch_size(pending) == Min(MAX_OPS_PER_WRITE_BATCH, pending)

\* One delete_batch.commit() of _clear_old_pending_reminders.
clear_commit_batch ==
    /\ gen.pc = "clear_commit"
    /\ LET n == delete_batch_size(Len(gen.refs))
           rest == SubSeq(gen.refs, n + 1, Len(gen.refs))
           newgen == IF rest = <<>> THEN NextChunk(gen)
                     ELSE [gen EXCEPT !.refs = rest]
       IN /\ reminders' = DeleteBatch(reminders, SubSeq(gen.refs, 1, n))
          /\ gen' = newgen
          /\ hist' = [HistAfterPassStep(newgen, gen.user_id, gen.selected,
                                        gen.fixture_ids, reminders')
                         EXCEPT !.deletes = Append(hist.deletes, n)]
    /\ UNCHANGED <<tasks, now, fixtures, users, settings, nextId, sched, dispatchChan,
                   statusChan, attemptLog, redelivered, passes, runs>>

\* The size at which _store_new_reminders commits, tested with > instead
\* of >=: a batch is committed once it holds one item more.
create_batch_size_late(pending) == Min(CREATE_BATCH_LIMIT + 1, pending)

\* The items of the next committed create batch when pending items are
\* still to be written: the batch is committed as soon as it holds
\* CREATE_BATCH_LIMIT items, and at the end when it is not empty.
create_batch_size(pending) == Min(CREATE_BATCH_LIMIT, pending)

\* One create_batch.commit() of _store_new_reminders.
store_commit_batch ==
    /\ gen.pc = "store"
    /\ LET n == create_batch_size(Len(gen.to_create))
           rest == SubSeq(gen.to_create, n + 1, Len(gen.to_create))
           newgen == IF rest = <<>> THEN Returned(gen.user_id, "done", "ok")
                     ELSE [gen EXCEPT !.to_create = rest]
       IN /\ reminders' =
               [id \in DOMAIN reminders \cup (nextId..(nextId + n - 1)) |->
                   IF id \in DOMAIN reminders THEN reminders[id]
                   ELSE [gen.to_create[id - nextId + 1]
                           EXCEPT !.reminder_id = id]]
          /\ nextId' = nextId + n
          /\ gen' = newgen
          /\ hist' = [HistAfterPassStep(newgen, gen.user_id, gen.selected,
                                        gen.fixture_ids, reminders')
                         EXCEPT !.commits = Append(hist.commits, n)]
    /\ UNCHANGED <<tasks, now, fixtures, users, settings, sched, dispatchChan, statusChan,
                   attemptLog, redelivered, passes, runs>>

\* The scout service stops between two steps of a pass (the process dies or
\* an exception leaves process_fixtures_for_user): the batches committed so
\* far stay, nothing is rolled back.
generator_crash ==
    /\ gen.pc \in {"clear_query", "clear_commit", "store"}
    /\ gen' = Returned(gen.user_id, "error", "ReminderProcessingError")
    /\ hist' = [hist EXCEPT
                   !.crashed = [valid |-> TRUE, user_id |-> gen.user_id,
                                selected |-> gen.selected,
                                fixture_ids |-> gen.fixture_ids,
                                deletes |-> hist.deletes,
                                commits |-> hist.commits]]
    /\ UNCHANGED <<tasks, now, fixtures, users, settings, reminders, nextId, sched,
                   dispatchChan, statusChan, attemptLog, redelivered, passes,
                   runs>>

Tick ==
    /\ now < MaxTime
    /\ now' = now + 1
    /\ UNCHANGED <<tasks, fixtures, users, settings, reminders, nextId, gen, sched,
                   dispatchChan, statusChan, attemptLog, redelivered, hist, passes, runs>>

\* ------------------------------------------------- Dispatch Scheduler
\* due_reminders_query with the status filter lost.
due_reminders_query_any_status(rs, now_utc) ==
    LET ids == SortedIds(DOMAIN rs)
    IN SubSeq(ids, 1, Min(QUERY_LIMIT, Len(ids)))

\* due_reminders_query: the pending reminders, at most 200 of them.  The
\* filter on actual_reminder_time_utc is commented out in the source.
due_reminders_query(rs, now_utc) ==
    LET ids == SortedIds({id \in DOMAIN rs : rs[id].status = "pending"})
    IN SubSeq(ids, 1, Min(QUERY_LIMIT, Len(ids)))

\* pydantic validation of UserDocFromDB (email: EmailStr).
ValidUserDocFromDB(u) ==
    /\ u.user_id # NULL
    /\ u.name # NULL
    /\ u.email # NULL /\ Contains("@", u.email)

\* target_topic_id falling back to the email topic for any other mode.
target_topic_id_defaulting(mode) == IF mode = "phone_call_mock" THEN PHONE_MOCK_NOTIFICATIONS_TOPIC_ID ELSE EMAIL_NOTIFICATIONS_TOPIC_ID

\* The topic keyed by the reminder's mode, or NULL.
target_topic_id(mode) ==
    IF mode = "email" THEN EMAIL_NOTIFICATIONS_TOPIC_ID
    ELSE IF mode = "phone_call_mock" THEN PHONE_MOCK_NOTIFICATIONS_TOPIC_ID
    ELSE NULL

\* notification_request_data with the user's phone number as the contact
\* email.
notification_request_data_phone_as_email(reminder, user_contact, topic) ==
    [original_reminder_id |-> reminder.reminder_id,
     user_id |-> reminder.user_id,
     fixture_id |-> reminder.fixture_id,
     contact_email |-> user_contact.phone_number,
     contact_phone |-> user_contact.phone_number,
     message_content |-> reminder.custom_message,
     reminder_mode |-> reminder.reminder_mode,
     kickoff_time_utc |-> reminder.kickoff_time_utc,
     topic |-> topic]

\* notification_request_data, with the topic it is published to.
notification_request_data(reminder, user_contact, topic) ==
    [original_reminder_id |-> reminder.reminder_id,
     user_id |-> reminder.user_id,
     fixture_id |-> reminder.fixture_id,
     contact_email |-> user_contact.email,
     contact_phone |-> user_contact.phone_number,
     message_content |-> reminder.custom_message,
     reminder_mode |-> reminder.reminder_mode,
     kickoff_time_utc |-> reminder.kickoff_time_utc,
     topic |-> topic]

\* update_reminder_status_in_firestore writing with set() instead of
\* update(): the fields that are not in the write are lost.
update_reminder_status_in_firestore_replacing(rs, reminder_id, new_status, details) ==
    IF reminder_id \notin DOMAIN rs THEN rs
    ELSE [rs EXCEPT ![reminder_id] =
            [f \in DOMAIN rs[reminder_id] |->
                IF f = "status" THEN new_status
                ELSE IF f \in DOMAIN details THEN details[f]
                ELSE IF f = "reminder_id" THEN reminder_id
                ELSE NULL]]

\* update_reminder_status_in_firestore: DocumentReference.update fails on a
\* missing document; the exception is logged and swallowed.
update_reminder_status_in_firestore(rs, reminder_id, new_status, details) ==
    IF reminder_id \notin DOMAIN rs THEN rs
    ELSE [rs EXCEPT ![reminder_id] =
            [f \in DOMAIN rs[reminder_id] |->
                IF f = "status" THEN new_status
                ELSE IF f \in DOMAIN details THEN details[f]
                ELSE rs[reminder_id][f]]]

\* pydantic validation of ReminderDocFromDB: the required fields are present
\* (the timestamps of a stored document are always well-typed here).
ValidReminderDocFromDB(doc) ==
    /\ doc.user_id # NULL
    /\ doc.fixture_id # NULL
    /\ doc.reminder_mode # NULL
    /\ doc.custom_message # NULL
    /\ doc.status # NULL

\* reminder_read_outcome with the document taken as read, unvalidated.
reminder_read_outcome_unvalidated(doc, unreadable) ==
    IF doc.reminder_id \in unreadable THEN "error_processing"
    ELSE "valid"

\* What the validation loop does with one queried document: "valid",
\* "error_validation" or "error_processing" (an unexpected read error).
reminder_read_outcome(doc, unreadable) ==
    IF doc.reminder_id \in unreadable THEN "error_processing"
    ELSE IF ~ValidReminderDocFromDB(doc) THEN "error_validation"
    ELSE "valid"

RECURSIVE validation_loop(_, _, _, _, _)
\* The loop over the query's snapshots: [store, valid, skipped] after
\* the snapshots from position i on.
validation_loop(snaps, unreadable, i, rs, acc) ==
    IF i > Len(snaps) THEN [store |-> rs, valid |-> acc.valid,
                             skipped |-> acc.skipped]
    ELSE LET outcome == reminder_read_outcome(snaps[i], unreadable)
         IN IF outcome = "valid"
            THEN validation_loop(snaps, unreadable, i + 1, rs,
                     [acc EXCEPT !.valid = Append(@, snaps[i])])
            ELSE validation_loop(snaps, unreadable, i + 1,
                     update_reminder_status_in_firestore(rs,
                         snaps[i].reminder_id, outcome,
                         [error_detail |-> "read error"]),
                     [acc EXCEPT !.skipped = @ + 1])

\* The query and validation loop of fetch_and_process_due_reminders; the
\* reads of the documents in unreadable raise an unexpected error.
scheduler_query(r, unreadable) ==
    /\ sched[r].pc = "idle"
    /\ r = 2 => sched[1].pc # "idle"
    /\ runs' = runs + 1
    /\ LET ids == due_reminders_query(reminders, now)
           snaps == [i \in 1..Len(ids) |-> reminders[ids[i]]]
           res == validation_loop(snaps, unreadable, 1, reminders,
                                  [valid |-> <<>>, skipped |-> 0])
       IN /\ reminders' = res.store
          /\ sched' = [sched EXCEPT ![r] =
                IF res.valid = <<>>
                THEN [SchedIdle EXCEPT !.skipped = res.skipped,
                                       !.total = Len(snaps)]
                ELSE [SchedIdle EXCEPT !.pc = "process", !.k = 1,
                        !.batch = res.valid, !.skipped = res.skipped,
                        !.total = Len(snaps)]]
    /\ hist' = [hist EXCEPT !.calm = FALSE]
    /\ UNCHANGED <<tasks, now, fixtures, users, settings, nextId, gen,
                   dispatchChan, statusChan, attemptLog, redelivered, passes>>

\* The status the loop body decides for one reminder, before it is written.
SchedulerOutcome(reminder, user_snap, project_id, publish_successful) ==
    IF ~user_snap.exists THEN "failed_user_not_found"
    ELSE IF ~ValidUserDocFromDB(user_snap) THEN "failed_invalid_user_data"
    ELSE IF target_topic_id(reminder.reminder_mode) = NULL
    THEN "failed_unknown_mode"
    ELSE IF project_id = NULL THEN "failed_config_error"
    ELSE IF publish_successful THEN "queued_for_notification"
    ELSE "failed_queueing"

CountOf(f, x) == IF x \in DOMAIN f THEN f[x] ELSE 0

Incr(f, x) == [y \in DOMAIN f \cup {x} |-> IF y = x THEN CountOf(f, x) + 1 ELSE f[y]]

\* One iteration of the loop over reminders_to_process up to the publish:
\* user lookup, topic choice, publish_to_pubsub.
scheduler_process(r, publish_ok) ==
    /\ sched[r].pc = "process"
    /\ LET reminder == sched[r].batch[sched[r].k]
           user_snap == users[reminder.user_id]
           topic == target_topic_id(reminder.reminder_mode)
           outcome == SchedulerOutcome(reminder, user_snap,
                                       settings.GCP_PROJECT_ID, publish_ok)
           attempted == outcome \in {"queued_for_notification",
                                     "failed_queueing"}
       IN /\ publish_ok \/ attempted
          /\ sched' = [sched EXCEPT ![r].pc = "write",
                                    ![r].new_status = outcome,
                                    ![r].topic = topic,
                                    ![r].published =
                                        IF outcome = "queued_for_notification"
                                        THEN @ + 1 ELSE @]
          /\ IF outcome = "queued_for_notification"
             THEN /\ dispatchChan' = dispatchChan (+) SetToBag(
                        {notification_request_data(reminder, user_snap, topic)})
                  /\ hist' = [hist EXCEPT !.calm = FALSE,
                        !.published = Incr(hist.published, reminder.reminder_id)]
             ELSE /\ dispatchChan' = dispatchChan
                  /\ hist' = [hist EXCEPT !.calm = FALSE]
    /\ UNCHANGED <<tasks, now, fixtures, users, settings, reminders, nextId, gen,
                   statusChan, attemptLog, redelivered, passes, runs>>

\* StatusDetails without the topic of a queued reminder.
StatusDetails_without_topic(new_status, topic) ==
    IF new_status = "failed_invalid_user_data"
    THEN [error_detail |-> "validation error"]
    ELSE <<>>

\* The details dictionary passed along with each status.
StatusDetails(new_status, topic) ==
    IF new_status = "queued_for_notification"
    THEN [published_to_topic |-> topic]
    ELSE IF new_status = "failed_invalid_user_data"
    THEN [error_detail |-> "validation error"]
    ELSE <<>>

\* Counted with failed_to_queue going up for a failed publish only.
Counted_publish_failures_only(s) == IF s.new_status = "queued_for_notification" THEN [s EXCEPT !.queued = @ + 1] ELSE IF s.new_status = "failed_queueing" THEN [s EXCEPT !.failed = @ + 1] ELSE s

\* The counters after the status write of one iteration: successfully_queued
\* or failed_to_queue goes up by one.
Counted(s) ==
    IF s.new_status = "queued_for_notification"
    THEN [s EXCEPT !.queued = @ + 1]
    ELSE [s EXCEPT !.failed = @ + 1]

\* The invocation at rest with the summary returned after the loop.
Summary(s) ==
    [SchedIdle EXCEPT !.skipped = s.skipped, !.total = s.total,
                      !.queued = s.queued, !.failed = s.failed,
                      !.valid = Len(s.batch), !.has_valid = TRUE,
                      !.published = s.published]

\* scheduler_write leaving the loop after a reminder whose user lookup failed.
scheduler_write_aborting(r) ==
    /\ sched[r].pc = "write"
    /\ reminders' = update_reminder_status_in_firestore(reminders,
            sched[r].batch[sched[r].k].reminder_id, sched[r].new_status,
            StatusDetails(sched[r].new_status, sched[r].topic))
    /\ sched' = [sched EXCEPT ![r] =
            IF /\ sched[r].k < Len(sched[r].batch)
               /\ sched[r].new_status \notin {"failed_user_not_found",
                                               "failed_invalid_user_data"}
            THEN [Counted(sched[r]) EXCEPT !.pc = "process",
                     !.k = sched[r].k + 1, !.new_status = NULL,
                     !.topic = NULL]
            ELSE Summary(Counted(sched[r]))]
    /\ hist' = [hist EXCEPT !.calm = FALSE]
    /\ UNCHANGED <<tasks, now, fixtures, users, settings, nextId, gen, dispatchChan,
                   statusChan, attemptLog, redelivered, passes, runs>>

\* The status write that ends the iteration, and the step to the next one.
scheduler_write(r) ==
    /\ sched[r].pc = "write"
    /\ reminders' = update_reminder_status_in_firestore(reminders,
            sched[r].batch[sched[r].k].reminder_id, sched[r].new_status,
            StatusDetails(sched[r].new_status, sched[r].topic))
    /\ sched' = [sched EXCEPT ![r] =
            IF sched[r].k < Len(sched[r].batch)
            THEN [Counted(sched[r]) EXCEPT !.pc = "process",
                     !.k = sched[r].k + 1, !.new_status = NULL,
                     !.topic = NULL]
            ELSE Summary(Counted(sched[r]))]
    /\ hist' = [hist EXCEPT !.calm = FALSE]
    /\ UNCHANGED <<tasks, now, fixtures, users, settings, nextId, gen, dispatchChan,
                   statusChan, attemptLog, redelivered, passes, runs>>

\* The status write that ends the iteration when the store rejects it:
\* update_reminder_status_in_firestore logs the exception and returns, the
\* document keeps the status it had and the loop goes on.
scheduler_write_raising(r) ==
    /\ sched[r].pc = "write"
    /\ sched' = [sched EXCEPT ![r] =
            IF sched[r].k < Len(sched[r].batch)
            THEN [Counted(sched[r]) EXCEPT !.pc = "process",
                     !.k = sched[r].k + 1, !.new_status = NULL,
                     !.topic = NULL]
            ELSE Summary(Counted(sched[r]))]
    /\ hist' = [hist EXCEPT !.calm = FALSE]
    /\ UNCHANGED <<tasks, now, fixtures, users, settings, reminders, nextId, gen,
                   dispatchChan, statusChan, attemptLog, redelivered, passes,
                   runs>>

\* ----------------------------------------------------- Channel Sender
\* MockEmailSender.send without its check of the contact email.
MockEmailSender_send_unchecked(payload) == <<TRUE, "sent_mock_email">>

\* MockEmailSender.send and MockPhoneCallSender.send: (success, outcome).
MockEmailSender_send(payload) ==
    IF payload.contact_email = NULL
    THEN <<FALSE, "failed_no_email_address">>
    ELSE <<TRUE, "sent_mock_email">>

MockPhoneCallSender_send(payload) ==
    IF payload.contact_phone = NULL
    THEN <<FALSE, "failed_no_phone_number">>
    ELSE <<TRUE, "sent_mock_phone_call">>

\* get_sender raises ValueError for any other mode.
SupportedMode(mode) == mode \in {"email", "phone_call_mock"}

sender_send(payload) ==
    IF payload.reminder_mode = "email" THEN MockEmailSender_send(payload)
    ELSE MockPhoneCallSender_send(payload)

\* process_single_notification: what it reports and what it leaves in the
\* notification log.  log1_ok and log2_ok say whether the write of the
\* "processing" record and its update succeed; when the update fails, the
\* update attempted by the exception handler fails as well.
\*   status: final_send_status_msg, error: error_for_status_update,
\*   log: the attempt record (NULL when the first write failed)
process_single_notification(payload, log1_ok, log2_ok) ==
    LET rec(st, err) == [original_reminder_id |-> payload.original_reminder_id,
                         reminder_mode |-> payload.reminder_mode,
                         status |-> st, error_message |-> err]
    IN IF ~log1_ok
       THEN [status |-> "failed_internal_service_error",
             error |-> "log write failed", log |-> <<>>]
       ELSE IF ~SupportedMode(payload.reminder_mode)
       THEN [status |-> "failed_invalid_request_data",
             error |-> "Unsupported notification mode",
             log |-> IF log2_ok
                     THEN <<rec("failed_invalid_request_data",
                                "Unsupported notification mode")>>
                     ELSE <<rec("processing", NULL)>>]
       ELSE IF ~log2_ok
       THEN [status |-> "failed_internal_service_error",
             error |-> "log update failed",
             log |-> <<rec("processing", NULL)>>]
       ELSE [status |-> sender_send(payload)[2], error |-> NULL,
             log |-> <<rec(sender_send(payload)[2], NULL)>>]

\* status_update_payload of _publish_status_update.
status_update_payload(payload, final_status, error_detail) ==
    [original_reminder_id |-> payload.original_reminder_id,
     user_id |-> payload.user_id,
     reminder_mode |-> payload.reminder_mode,
     final_notification_status |-> final_status,
     error_detail |-> error_detail]

\* _publish_status_update called on the success path only instead of in the
\* finally block.
publish_status_update_on_success(payload, final_status, error_detail, publish_ok) ==
    IF publish_ok /\ ~StartsWith(final_status, "failed_")
    THEN SetToBag({status_update_payload(payload, final_status, error_detail)})
    ELSE EmptyBag

\* _publish_status_update: the events put on the status topic.  Nothing is
\* published when the publisher or its configuration is missing or the
\* publish raises (publish_ok = FALSE); the error is logged.
publish_status_update(payload, final_status, error_detail, publish_ok) ==
    IF publish_ok
    THEN SetToBag({status_update_payload(payload, final_status, error_detail)})
    ELSE EmptyBag

\* What a channel keeps of a delivered message: nothing, or the message when
\* it is going to deliver it again.
AfterDelivery(chan, m, redeliver) ==
    IF redeliver THEN chan ELSE chan (-) SetToBag({m})

\* handle_email_notification_push / handle_phone_mock_notification_push with
\* the background task they start.
handle_notification_push(m, redeliver, log1_ok, log2_ok, publish_ok) ==
    /\ BagIn(m, dispatchChan)
    /\ redeliver => redelivered < MaxRedeliver
    /\ LET endpoint_mode == IF m.topic = EMAIL_NOTIFICATIONS_TOPIC_ID
                            THEN "email" ELSE "phone_call_mock"
           res == process_single_notification(m, log1_ok, log2_ok)
       IN IF m.reminder_mode # endpoint_mode
          THEN /\ log1_ok /\ log2_ok /\ publish_ok
               /\ UNCHANGED <<statusChan, attemptLog, passes, runs>>
          ELSE /\ statusChan' = statusChan (+)
                      publish_status_update(m, res.status, res.error, publish_ok)
               /\ attemptLog' = attemptLog \cup Range(res.log)
    /\ dispatchChan' = AfterDelivery(dispatchChan, m, redeliver)
    /\ redelivered' = redelivered + IF redeliver THEN 1 ELSE 0
    /\ UNCHANGED <<tasks, now, fixtures, users, settings, reminders, nextId, gen,
                   sched, hist, passes, runs>>

\* ---------------------------------- Channel Sender, followed step by step
\* The same handlers with the background task as steps of its own: the
\* handler returns 204 (the acknowledgment) once the task is added, and the
\* task runs afterwards.  Attempt records carry their notification_log_id
\* here; log_id 0 stands for None.
NewTask(m) ==
    [payload |-> m, pc |-> "added", log_id |-> 0,
     final_status |-> "unknown_error", error |-> NULL]

AttemptRecord(log_id, payload, status, error_message) ==
    [notification_log_id |-> log_id,
     original_reminder_id |-> payload.original_reminder_id,
     reminder_mode |-> payload.reminder_mode,
     status |-> status, error_message |-> error_message]

\* _log_notification_attempt with log_id_override writing a document under
\* a new id instead of updating the one it was given.
update_attempt_record_as_new(log, log_id, payload, status, error_message) ==
    log \cup {AttemptRecord(log_id + Cardinality(log), payload, status,
                            error_message)}

\* _log_notification_attempt with log_id_override: the document of that id
\* gets the status and the error message.
update_attempt_record(log, log_id, payload, status, error_message) ==
    {IF rec.notification_log_id = log_id
     THEN [rec EXCEPT !.status = status, !.error_message = error_message]
     ELSE rec : rec \in log}

\* handle_email_notification_push / handle_phone_mock_notification_push: a
\* message of another mode is discarded, otherwise the task is added; the
\* response acknowledges the message in both cases.
sender_ack(m, redeliver) ==
    /\ BagIn(m, dispatchChan)
    /\ redeliver => redelivered < MaxRedeliver
    /\ LET endpoint_mode == IF m.topic = EMAIL_NOTIFICATIONS_TOPIC_ID
                            THEN "email" ELSE "phone_call_mock"
       IN tasks' = IF m.reminder_mode # endpoint_mode THEN tasks
                   ELSE Append(tasks, NewTask(m))
    /\ dispatchChan' = AfterDelivery(dispatchChan, m, redeliver)
    /\ redelivered' = redelivered + IF redeliver THEN 1 ELSE 0
    /\ UNCHANGED <<now, fixtures, users, settings, reminders, nextId, gen,
                   sched, statusChan, attemptLog, hist, passes, runs>>

\* Step 1 of process_single_notification: the "processing" record, written
\* under a fresh id.  When the write raises, the task goes to its finally
\* block with failed_internal_service_error and no log_id.
task_log_processing(k, log_ok) ==
    /\ tasks[k].pc = "added"
    /\ IF log_ok
       THEN /\ attemptLog' = attemptLog \cup
                   {AttemptRecord(k, tasks[k].payload, "processing", NULL)}
            /\ tasks' = [tasks EXCEPT ![k].pc = "logged", ![k].log_id = k]
       ELSE /\ attemptLog' = attemptLog
            /\ tasks' = [tasks EXCEPT
                            ![k].pc = "publish",
                            ![k].final_status = "failed_internal_service_error",
                            ![k].error = "log write failed"]
    /\ UNCHANGED <<now, fixtures, users, settings, reminders, nextId, gen,
                   sched, dispatchChan, statusChan, redelivered, hist, passes,
                   runs>>

\* Steps 2 and 3: get_sender, which raises ValueError for an unsupported
\* mode, and sender.send.
task_send(k) ==
    /\ tasks[k].pc = "logged"
    /\ tasks' = IF SupportedMode(tasks[k].payload.reminder_mode)
                THEN [tasks EXCEPT
                        ![k].pc = "sent",
                        ![k].final_status = sender_send(tasks[k].payload)[2]]
                ELSE [tasks EXCEPT
                        ![k].pc = "sent",
                        ![k].final_status = "failed_invalid_request_data",
                        ![k].error = "Unsupported notification mode"]
    /\ UNCHANGED <<now, fixtures, users, settings, reminders, nextId, gen,
                   sched, dispatchChan, statusChan, attemptLog, redelivered,
                   hist, passes, runs>>

\* Step 4, or the update made by the ValueError handler: the record of the
\* task's log_id gets the outcome.  When the update raises after a send,
\* the handler of Exception reports failed_internal_service_error and its
\* own update raises as well.
task_log_outcome(k, log_ok) ==
    /\ tasks[k].pc = "sent"
    /\ IF log_ok
       THEN /\ attemptLog' = update_attempt_record(attemptLog, tasks[k].log_id,
                                 tasks[k].payload, tasks[k].final_status,
                                 tasks[k].error)
            /\ tasks' = [tasks EXCEPT ![k].pc = "publish"]
       ELSE /\ attemptLog' = attemptLog
            /\ tasks' = IF tasks[k].error # NULL
                        THEN [tasks EXCEPT ![k].pc = "publish"]
                        ELSE [tasks EXCEPT
                                ![k].pc = "publish",
                                ![k].final_status =
                                    "failed_internal_service_error",
                                ![k].error = "log update failed"]
    /\ UNCHANGED <<now, fixtures, users, settings, reminders, nextId, gen,
                   sched, dispatchChan, statusChan, redelivered, hist, passes,
                   runs>>

\* Step 5, in the finally block: _publish_status_update.
task_publish(k, publish_ok) ==
    /\ tasks[k].pc = "publish"
    /\ statusChan' = statusChan (+)
           publish_status_update(tasks[k].payload, tasks[k].final_status,
                                 tasks[k].error, publish_ok)
    /\ tasks' = [tasks EXCEPT ![k].pc = "done"]
    /\ UNCHANGED <<now, fixtures, users, settings, reminders, nextId, gen,
                   sched, dispatchChan, attemptLog, redelivered, hist, passes,
                   runs>>

\* The notification service stops (its instance is killed or restarted):
\* the background tasks that have not finished are lost with it.
sender_stop ==
    /\ \E k \in 1..Len(tasks) : tasks[k].pc \notin {"done", "stopped"}
    /\ tasks' = [k \in 1..Len(tasks) |->
                   IF tasks[k].pc = "done" THEN tasks[k]
                   ELSE [tasks[k] EXCEPT !.pc = "stopped"]]
    /\ UNCHANGED <<now, fixtures, users, settings, reminders, nextId, gen,
                   sched, dispatchChan, statusChan, attemptLog, redelivered,
                   hist, passes, runs>>

\* -------------------------------------------------- Status Reconciler
RECURSIVE LastIndexOf(_, _, _)
\* the start of the last occurrence of sep in s at or before position i, or 0
LastIndexOf(s, sep, i) ==
    IF i < 1 THEN 0
    ELSE IF i + Len(sep) - 1 <= Len(s) /\ SubSeq(s, i, i + Len(sep) - 1) = sep
    THEN i
    ELSE LastIndexOf(s, sep, i - 1)

\* Python's s.split(sep)[-1]
SplitLast(s, sep) ==
    LET i == LastIndexOf(s, sep, Len(s))
    IN IF i = 0 THEN s ELSE SubSeq(s, i + Len(sep), Len(s))

\* new_reminder_collection_status of process_reminder_status_update.
new_reminder_collection_status(final_notification_status, error_detail) ==
    IF \/ Contains("sent_mock", final_notification_status)
       \/ Contains("delivered", final_notification_status)
    THEN "sent"
    ELSE IF Contains("failed", final_notification_status)
    THEN IF error_detail # NULL /\ error_detail # ""
         THEN "failed_notification_delivery"
         ELSE "failed_notification_" \o
                  SplitLast(final_notification_status, "failed_")
    ELSE "status_update_" \o final_notification_status

\* process_reminder_status_update writing with set(merge) instead of update:
\* a missing document is created.
process_reminder_status_update_upserting(rs, payload) ==
    LET id == payload.original_reminder_id
        status == new_reminder_collection_status(
                      payload.final_notification_status, payload.error_detail)
    IN [i \in DOMAIN rs \cup {id} |->
          IF i # id THEN rs[i]
          ELSE IF id \in DOMAIN rs
          THEN [rs[id] EXCEPT
                  !.status = status,
                  !.last_notification_outcome =
                      payload.final_notification_status,
                  !.last_notification_error_detail =
                      IF payload.error_detail # NULL THEN payload.error_detail
                      ELSE @]
          ELSE [status |-> status,
                last_notification_outcome |->
                    payload.final_notification_status,
                last_notification_error_detail |-> payload.error_detail]]

\* process_reminder_status_update adding the error text to the text already
\* stored instead of replacing it.
process_reminder_status_update_appending(rs, payload) ==
    IF payload.original_reminder_id \notin DOMAIN rs THEN rs
    ELSE [rs EXCEPT ![payload.original_reminder_id] =
            [@ EXCEPT
               !.status = new_reminder_collection_status(
                    payload.final_notification_status, payload.error_detail),
               !.last_notification_outcome = payload.final_notification_status,
               !.last_notification_error_detail =
                    IF payload.error_detail # NULL /\ payload.error_detail # ""
                    THEN (IF @ = NULL THEN "" ELSE @ \o "; ")
                            \o payload.error_detail
                    ELSE @]]

\* process_reminder_status_update finding its reminders by the event's user
\* and mode instead of by the reminder id.
process_reminder_status_update_by_user(rs, payload) ==
    [id \in DOMAIN rs |->
        IF /\ rs[id].user_id = payload.user_id
           /\ rs[id].reminder_mode = payload.reminder_mode
        THEN [rs[id] EXCEPT
                !.status = new_reminder_collection_status(
                     payload.final_notification_status, payload.error_detail),
                !.last_notification_outcome =
                     payload.final_notification_status,
                !.last_notification_error_detail =
                     IF payload.error_detail # NULL THEN payload.error_detail
                     ELSE @]
        ELSE rs[id]]

\* process_reminder_status_update: the store after the update.  The update of
\* a missing document raises NotFound, which is caught: nothing is written.
process_reminder_status_update(rs, payload) ==
    IF payload.original_reminder_id \notin DOMAIN rs THEN rs
    ELSE [rs EXCEPT ![payload.original_reminder_id] =
            [@ EXCEPT
               !.status = new_reminder_collection_status(
                    payload.final_notification_status, payload.error_detail),
               !.last_notification_outcome = payload.final_notification_status,
               !.last_notification_error_detail =
                    IF payload.error_detail # NULL /\ payload.error_detail # ""
                    THEN SubSeq(payload.error_detail, 1,
                             Min(ERROR_DETAIL_LIMIT, Len(payload.error_detail)))
                    ELSE @]]

\* The value process_reminder_status_update returns: True after the update,
\* False when the update raised (the document does not exist).
process_reminder_status_update_returns(rs, payload) ==
    payload.original_reminder_id \in DOMAIN rs

\* handle_reminder_status_update_push with the background task it starts.
handle_reminder_status_update_push(ev, redeliver) ==
    /\ BagIn(ev, statusChan)
    /\ redeliver => redelivered < MaxRedeliver
    /\ reminders' = process_reminder_status_update(reminders, ev)
    /\ statusChan' = AfterDelivery(statusChan, ev, redeliver)
    /\ redelivered' = redelivered + IF redeliver THEN 1 ELSE 0
    /\ UNCHANGED <<tasks, now, fixtures, users, settings, nextId, gen, sched,
                   dispatchChan, attemptLog, hist, passes, runs>>

\* ------------------------------------------------ delete_future_reminders
\* The query of delete_future_reminders with its filter lost.
future_reminders_query_all(rs, now_utc) == DOMAIN rs

\* The query of delete_future_reminders: every reminder, of any user and
\* status, whose kickoff_time_utc is after now.
future_reminders_query(rs, now_utc) ==
    {id \in DOMAIN rs : rs[id].kickoff_time_utc > now_utc}

\* delete_future_reminders of the reminder service: the documents of the
\* query are deleted (its commits of 500 documents are one step here).
delete_future_reminders ==
    /\ reminders' = [id \in DOMAIN reminders
                             \ future_reminders_query(reminders, now) |->
                         reminders[id]]
    /\ UNCHANGED <<tasks, now, fixtures, users, settings, nextId, gen, sched,
                   dispatchChan, statusChan, attemptLog, redelivered, hist,
                   passes, runs>>

\* ---------------------------------------------------------------- Next
\* The generator, for at most max_passes passes.
GeneratorNext(max_passes) ==
    \/ /\ passes < max_passes
       /\ \E uid \in Users, pref_ok \in BOOLEAN, resp \in LLMResponses :
             process_fixtures_for_user(uid, pref_ok, resp)
    \/ clear_query_chunk
    \/ clear_commit_batch
    \/ store_commit_batch

\* The scheduler, for at most max_runs invocations, which overlap when
\* there is more than one slot; faults holds the sets of documents whose
\* read may raise an unexpected error.
SchedulerNext(max_runs, slots, faults) ==
    \/ /\ runs < max_runs
       /\ \E r \in slots, unreadable \in faults : scheduler_query(r, unreadable)
    \/ \E r \in slots, publish_ok \in BOOLEAN : scheduler_process(r, publish_ok)
    \/ \E r \in slots : scheduler_write(r)

\* The whole pipeline, with a notification log that accepts every write.
Next ==
    \/ GeneratorNext(MaxPasses)
    \/ SchedulerNext(MaxSchedulerRuns, Runs, {{}})
    \/ \E m \in BagToSet(dispatchChan), redeliver, publish_ok \in BOOLEAN :
          handle_notification_push(m, redeliver, TRUE, TRUE, publish_ok)
    \/ \E ev \in BagToSet(statusChan), redeliver \in BOOLEAN :
          handle_reminder_status_update_push(ev, redeliver)
    \/ Tick

Spec == Init /\ [][Next]_vars

\* The generator and the scheduler alone, at one instant.
GeneratorSchedulerNext ==
    \/ GeneratorNext(MaxPasses)
    \/ SchedulerNext(MaxSchedulerRuns, Runs, {{}})

SpecGenerator == Init /\ [][GeneratorSchedulerNext]_vars

\* The generator and scheduler invocations that run one after the other,
\* at one instant.
RegenerateNext ==
    \/ GeneratorNext(MaxPasses)
    \/ SchedulerNext(MaxSchedulerRuns, {1}, {{}})

SpecRegenerate == Init /\ [][RegenerateNext]_vars

\* The generator alone while time passes: a fixture with stored reminders
\* leaves the window between two passes.
WindowNext ==
    \/ GeneratorNext(MaxPasses + 2)
    \/ Tick

SpecWindow == Init /\ [][WindowNext]_vars

\* The generator and the scheduler with delete_future_reminders run at any
\* moment.
CleanupNext ==
    \/ GeneratorSchedulerNext
    \/ delete_future_reminders

SpecCleanup == Init /\ [][CleanupNext]_vars

\* The scheduler and the Channel Sender, with a notification log whose
\* writes can fail and scheduler invocations that do not overlap.  They start
\* after two passes have stored a phone reminder for u2, who has no phone
\* number, and an email reminder for u1.
InitSender ==
    /\ now = 0
    /\ fixtures = FixtureStore
    /\ users = [u \in Users |->
                   IF u = "u1" THEN UserDoc("u1", "u1@example.com", "555")
                   ELSE UserDoc("u2", "u2@example.com", NULL)]
    /\ settings = [GCP_PROJECT_ID |-> "fixture-scout"]
    /\ reminders = [id \in {1, 2} |->
          IF id = 1
          THEN ReminderDoc(1, "u2", Sel("f2", 2, <<>>),
                   Trig(0, "phone_call_mock", "call"), FixtureStore["f2"])
          ELSE ReminderDoc(2, "u1", Sel("f1", 4, <<>>),
                   Trig(1, "email", "go"), FixtureStore["f1"])]
    /\ nextId = 3
    /\ gen = Returned("u1", "done", "ok")
    /\ sched = [r \in Runs |-> SchedIdle]
    /\ dispatchChan = EmptyBag
    /\ statusChan = EmptyBag
    /\ attemptLog = {}
    /\ redelivered = 0
    /\ passes = 2
    /\ runs = 0
    /\ hist = HistInit
    /\ tasks = <<>>

SenderNext ==
    \/ SchedulerNext(MaxSenderRuns, {1}, {{}})
    \/ \E m \in BagToSet(dispatchChan), redeliver, log1_ok, log2_ok,
             publish_ok \in BOOLEAN :
          handle_notification_push(m, redeliver, log1_ok, log2_ok, publish_ok)

SpecSender == InitSender /\ [][SenderNext]_vars

\* The scheduler alone, in overlapping invocations, over a store that also
\* holds a document another writer left without its custom_message and a
\* reminder of a mode no topic is configured for; the project id may be
\* unset and the read of any document may fail.
SchedulerStore ==
    [id \in 1..4 |->
       IF id = 1
       THEN ReminderDoc(1, "u2", Sel("f2", 2, <<>>),
                Trig(0, "phone_call_mock", "call"), FixtureStore["f2"])
       ELSE IF id = 2
       THEN ReminderDoc(2, "u1", Sel("f1", 4, <<>>),
                Trig(1, "email", "go"), FixtureStore["f1"])
       ELSE IF id = 3
       THEN [ReminderDoc(3, "u1", Sel("f2", 3, <<>>),
                 Trig(1, "email", "go"), FixtureStore["f2"])
               EXCEPT !.custom_message = NULL]
       ELSE ReminderDoc(4, "u1", Sel("f2", 3, <<>>),
                Trig(2, "sms", "txt"), FixtureStore["f2"])]

InitScheduler ==
    /\ now = 0
    /\ fixtures = FixtureStore
    /\ users \in UserStores
    /\ settings \in {[GCP_PROJECT_ID |-> "fixture-scout"],
                     [GCP_PROJECT_ID |-> NULL]}
    /\ reminders = SchedulerStore
    /\ nextId = 5
    /\ gen = Returned("u1", "done", "ok")
    /\ sched = [r \in Runs |-> SchedIdle]
    /\ dispatchChan = EmptyBag
    /\ statusChan = EmptyBag
    /\ attemptLog = {}
    /\ redelivered = 0
    /\ passes = 2
    /\ runs = 0
    /\ hist = HistInit
    /\ tasks = <<>>

SchedulerOnlyNext ==
    SchedulerNext(MaxSchedulerRuns, Runs, SUBSET DOMAIN SchedulerStore)

SpecScheduler == InitScheduler /\ [][SchedulerOnlyNext]_vars

\* Scheduler invocations that run one after the other over the same store,
\* with status writes that the store may reject.
WriteFaultsNext ==
    \/ SchedulerNext(MaxSchedulerRuns, {1}, {{}})
    \/ scheduler_write_raising(1)

SpecWriteFaults == InitScheduler /\ [][WriteFaultsNext]_vars

\* The Status Reconciler alone, over a store of two queued reminders, fed
\* one or two StatusEvents from the status topic: events of any outcome
\* string of Outcomes, with or without error text, naming reminder 1, 2
\* or no stored reminder, and carrying either user and mode.
Outcomes ==
    {"sent_mock_email", "sent_email", "sent", "delivered_mock",
     "failed_no_email_address", "failed_provider_error", "weird_new_outcome"}

StatusEvents ==
    {[original_reminder_id |-> id,
      user_id |-> um[1],
      reminder_mode |-> um[2],
      final_notification_status |-> o,
      error_detail |-> e] :
        id \in {1, 2, 9},
        um \in {<<"u1", "email">>, <<"u2", "phone_call_mock">>},
        o \in Outcomes,
        e \in {NULL, "smtp timeout"}}

ReconcilerStore ==
    [id \in {1, 2} |->
        [SchedulerStore[id] EXCEPT
            !.status = "queued_for_notification",
            !.published_to_topic =
                target_topic_id(SchedulerStore[id].reminder_mode)]]

InitReconciler ==
    /\ now = 0
    /\ fixtures = FixtureStore
    /\ users = [u \in Users |->
                   IF u = "u1" THEN UserDoc("u1", "u1@example.com", "555")
                   ELSE UserDoc("u2", "u2@example.com", NULL)]
    /\ settings = [GCP_PROJECT_ID |-> "fixture-scout"]
    /\ reminders = ReconcilerStore
    /\ nextId = 3
    /\ gen = Returned("u1", "done", "ok")
    /\ sched = [r \in Runs |-> SchedIdle]
    /\ dispatchChan = EmptyBag
    /\ \E e1, e2 \in StatusEvents :
          statusChan = SetToBag({e1}) (+) (IF e1 = e2 THEN EmptyBag
                                          ELSE SetToBag({e2}))
    /\ attemptLog = {}
    /\ redelivered = 0
    /\ passes = 2
    /\ runs = 1
    /\ hist = [HistInit EXCEPT !.published = [id \in {1, 2} |-> 1]]
    /\ tasks = <<>>

ReconcilerNext ==
    \E ev \in BagToSet(statusChan), redeliver \in BOOLEAN :
        handle_reminder_status_update_push(ev, redeliver)

SpecReconciler == InitReconciler /\ [][ReconcilerNext]_vars

\* The status writers together: one scheduler invocation over the store of
\* SpecScheduler, the Channel Sender and the Status Reconciler.
StatusWritersNext ==
    \/ SchedulerNext(MaxSenderRuns, {1}, SUBSET DOMAIN SchedulerStore)
    \/ \E m \in BagToSet(dispatchChan), redeliver, publish_ok \in BOOLEAN :
          handle_notification_push(m, redeliver, TRUE, TRUE, publish_ok)
    \/ \E ev \in BagToSet(statusChan), redeliver \in BOOLEAN :
          handle_reminder_status_update_push(ev, redeliver)

SpecStatusWriters == InitScheduler /\ [][StatusWritersNext]_vars

\* The Sender's handlers and background tasks, for the sets of outcomes of
\* its log writes given in log_faults.
SenderStepsNext(log_faults) ==
    \/ \E m \in BagToSet(dispatchChan), redeliver \in BOOLEAN :
          sender_ack(m, redeliver)
    \/ \E k \in 1..Len(tasks), log_ok \in log_faults :
          task_log_processing(k, log_ok)
    \/ \E k \in 1..Len(tasks) : task_send(k)
    \/ \E k \in 1..Len(tasks), log_ok \in log_faults :
          task_log_outcome(k, log_ok)
    \/ \E k \in 1..Len(tasks), publish_ok \in BOOLEAN :
          task_publish(k, publish_ok)

\* The scheduler, the Sender step by step with a notification log that
\* accepts every write, and the Reconciler.
SenderOrderNext ==
    \/ SchedulerNext(MaxSenderRuns, {1}, {{}})
    \/ SenderStepsNext({TRUE})
    \/ \E ev \in BagToSet(statusChan), redeliver \in BOOLEAN :
          handle_reminder_status_update_push(ev, redeliver)

SpecSenderOrder == InitSender /\ [][SenderOrderNext]_vars

\* The same with a Sender that may stop at any moment.
SenderStopNext ==
    \/ SchedulerNext(MaxSchedulerRuns, {1}, {{}})
    \/ SenderStepsNext({TRUE})
    \/ sender_stop
    \/ \E ev \in BagToSet(statusChan), redeliver \in BOOLEAN :
          handle_reminder_status_update_push(ev, redeliver)

SpecSenderStop == InitSender /\ [][SenderStopNext]_vars

\* The Sender alone, step by step, fed one or two dispatch messages of
\* either mode with or without a contact email and a contact phone.
DispatchInputs ==
    {notification_request_data(ReconcilerStore[id],
         [email |-> e, phone_number |-> ph],
         target_topic_id(ReconcilerStore[id].reminder_mode)) :
        id \in {1, 2},
        e \in {NULL, "u@example.com"},
        ph \in {NULL, "555"}}

InitSendResults ==
    /\ now = 0
    /\ fixtures = FixtureStore
    /\ users = [u \in Users |->
                   IF u = "u1" THEN UserDoc("u1", "u1@example.com", "555")
                   ELSE UserDoc("u2", "u2@example.com", NULL)]
    /\ settings = [GCP_PROJECT_ID |-> "fixture-scout"]
    /\ reminders = ReconcilerStore
    /\ nextId = 3
    /\ gen = Returned("u1", "done", "ok")
    /\ sched = [r \in Runs |-> SchedIdle]
    /\ \E m1, m2 \in DispatchInputs :
          dispatchChan = SetToBag({m1}) (+) (IF m1 = m2 THEN EmptyBag
                                            ELSE SetToBag({m2}))
    /\ statusChan = EmptyBag
    /\ attemptLog = {}
    /\ redelivered = 0
    /\ passes = 2
    /\ runs = 1
    /\ hist = [HistInit EXCEPT !.published = [id \in {1, 2} |-> 1]]
    /\ tasks = <<>>

SendResultsNext == SenderStepsNext({TRUE})

SpecSendResults == InitSendResults /\ [][SendResultsNext]_vars

\* The generator alone around its chunk and batch limits: as many in-window
\* fixtures as one chunk holds, one more, and MaxFixtures; selections whose
\* triggers fill one create batch, one more, and MaxTriggers.
FixtureName(i) == "g" \o ToString(i)

BatchFixtureCounts ==
    {n \in {MAX_IN_QUERY_VALUES, MAX_IN_QUERY_VALUES + 1, MaxFixtures} :
        n <= MaxFixtures}

BatchFixtureStore(n) ==
    [f \in {FixtureName(i) : i \in 1..n} |->
        CHOOSE i \in 1..n : FixtureName(i) = f]

TriggerCounts ==
    {t \in {CREATE_BATCH_LIMIT, CREATE_BATCH_LIMIT + 1, MaxTriggers} :
        t <= MaxTriggers}

\* One selection with t triggers of differing offsets and modes.
ManyTriggers(fid, t) ==
    Sel(fid, 4, [j \in 1..t |->
                    Trig(j % 3, IF j % 2 = 0 THEN "email"
                                ELSE "phone_call_mock", "go")])

\* Selections for the fixtures at both ends of every chunk, the first with
\* two triggers, and one selection of a fixture that is not in the window.
BoundarySelections(upcoming) ==
    LET n == Len(upcoming)
        positions == SortedIds({k \in {1, MAX_IN_QUERY_VALUES,
                                       MAX_IN_QUERY_VALUES + 1, n} :
                                   k \in 1..n})
    IN <<Sel("f9", 3, <<Trig(1, "email", "go")>>)>> \o
       [k \in 1..Len(positions) |->
           Sel(upcoming[positions[k]], 2,
               IF k = 1 THEN <<Trig(60, "email", "go"),
                               Trig(5, "phone_call_mock", "call")>>
               ELSE <<Trig(60, "email", "go")>>)]

BatchResponses(upcoming, trigger_counts) ==
    {[kind |-> "json", items |-> BoundarySelections(upcoming)]}
    \cup {[kind |-> "json", items |-> <<ManyTriggers(upcoming[1], t)>>] :
             t \in trigger_counts}

BatchesInit(fixture_counts) ==
    /\ now = 0
    /\ fixtures \in {BatchFixtureStore(n) : n \in fixture_counts}
    /\ users \in {[u \in Users |-> UserDoc(u, "u@example.com", "555")]}
    /\ settings \in {[GCP_PROJECT_ID |-> p] : p \in {"fixture-scout"}}
    /\ reminders = <<>>
    /\ nextId = 1
    /\ gen = GenIdle
    /\ sched = [r \in Runs |-> SchedIdle]
    /\ dispatchChan = EmptyBag
    /\ statusChan = EmptyBag
    /\ attemptLog = {}
    /\ redelivered = 0
    /\ passes = 0
    /\ runs = 0
    /\ hist = HistInit
    /\ tasks = <<>>

BatchesNext(max_passes, trigger_counts) ==
    \/ /\ passes < max_passes
       /\ \E resp \in BatchResponses(fetch_upcoming_fixtures(fixtures, now),
                                     trigger_counts) :
             process_fixtures_for_user("u1", TRUE, resp)
    \/ clear_query_chunk
    \/ clear_commit_batch
    \/ store_commit_batch

BatchesOnlyNext == BatchesNext(MaxPasses, TriggerCounts)

SpecBatches == BatchesInit(BatchFixtureCounts) /\ [][BatchesOnlyNext]_vars

\* The generator over two chunks of fixtures, with selections that fill
\* more than one create batch, where a pass may stop between two of its
\* steps and a later pass runs after it.
CrashNext ==
    \/ BatchesNext(MaxPasses + 1, {CREATE_BATCH_LIMIT + 1})
    \/ generator_crash

SpecCrash == BatchesInit({MAX_IN_QUERY_VALUES + 1}) /\ [][CrashNext]_vars

\* ------------------------------------------------------------ properties
Terminal(status) ==
    \/ status = "sent"
    \/ StartsWith(status, "failed_")
    \/ StartsWith(status, "error_")
    \/ StartsWith(status, "status_update_")

\* The statuses the Status Reconciler writes.
ClosedOut(status) ==
    \/ status = "sent"
    \/ StartsWith(status, "failed_notification_")
    \/ StartsWith(status, "status_update_")

Kept == DOMAIN reminders \cap DOMAIN reminders'

\* C1: once a reminder's status is terminal (sent, failed_*, error_*,
\* status_update_*), no step changes that status.
C1_StatusMonotonic ==
    [][\A id \in Kept :
          Terminal(reminders[id].status) =>
              reminders'[id].status = reminders[id].status]_vars

\* C3: on one reminder the write of queued_for_notification comes before the
\* Reconciler's write: the Reconciler never writes to a reminder that is
\* still pending, and queued_for_notification is never written over a status
\* the Reconciler wrote.
C3_QueuedBeforeTerminal ==
    [][\A id \in Kept :
          /\ reminders[id].status = "pending" =>
                 ~ClosedOut(reminders'[id].status)
          /\ ClosedOut(reminders[id].status) =>
                 reminders'[id].status # "queued_for_notification"]_vars

\* C4: a reminder that is queued_for_notification loses that status only in
\* a step of the Status Reconciler: never in a scheduler step and never in a
\* generator step, which also never deletes it.
C4_OnlyReconcilerLeavesQueued ==
    [][\A id \in DOMAIN reminders :
          /\ reminders[id].status = "queued_for_notification"
          /\ \/ id \notin DOMAIN reminders'
             \/ reminders'[id].status # "queued_for_notification"
          => /\ id \in DOMAIN reminders'
             /\ sched' = sched
             /\ gen' = gen]_vars

\* C5: every reminder a step deletes is pending at the moment of the delete.
C5_DeletesOnlyPending ==
    [][\A id \in DOMAIN reminders \ DOMAIN reminders' :
          reminders[id].status = "pending"]_vars

\* C2: a pass that completes after a completed pass for the same user with
\* the same selections and the same in-window fixtures, no scheduler step
\* having been taken in between, leaves the user with the reminders the
\* earlier pass left: same count and same fixture, offset, mode, message,
\* importance and trigger instant.
C2_IdempotentRegeneration ==
    [][/\ gen'.pc = "done" /\ gen'.result = "ok"
       /\ passes' # passes \/ gen.pc \notin {"idle", "done", "error"}
       /\ hist.last.valid
       /\ hist.calm
       /\ hist'.last.user_id = hist.last.user_id
       /\ hist'.last.selected = hist.last.selected
       /\ hist'.last.fixture_ids = hist.last.fixture_ids
       => UserContent(reminders', hist.last.user_id) = hist.last.content]_vars

\* a pass has repeated the pass before it and has replaced the reminder that
\* pass had created by its copy
C2_Witness ==
    /\ gen.pc = "done"
    /\ hist.repeated
    /\ hist.last.selected # <<>>
    /\ \E id \in DOMAIN reminders :
          /\ id = nextId - 1
          /\ id - 1 \notin DOMAIN reminders
          /\ reminders[id].user_id = hist.last.user_id
          /\ reminders[id].status = "pending"

\* C8: a pass whose generation response is blocked, is not JSON or does not
\* match the selection schema ends with LLMResponseError and leaves the
\* reminders collection as it was.
C8_FailureLeavesStore ==
    [][passes' # passes /\ fetch_upcoming_fixtures(fixtures, now) # <<>> =>
         \A resp \in LLMResponses :
            /\ resp.kind \in {"blocked", "invalid_json"}
                  \/ (resp.kind = "json" /\ \E i \in 1..Len(resp.items) :
                          ~ValidLLMSelectedFixtureResponse(resp.items[i]))
            /\ process_fixtures_for_user(gen'.user_id, TRUE, resp)
            => /\ gen'.pc = "error"
               /\ gen'.result = "LLMResponseError"
               /\ reminders' = reminders]_vars

\* a pass has failed with LLMResponseError while the user had a pending
\* reminder, which is still there
C8_Witness ==
    /\ gen.pc = "error"
    /\ gen.result = "LLMResponseError"
    /\ \E id \in DOMAIN reminders :
          /\ reminders[id].user_id = gen.user_id
          /\ reminders[id].status = "pending"

\* The mode of the push endpoint a dispatch message arrives at.
EndpointMode(m) ==
    IF m.topic = EMAIL_NOTIFICATIONS_TOPIC_ID THEN "email" ELSE "phone_call_mock"

SendOutcomes ==
    {"sent_mock_email", "sent_mock_phone_call", "failed_no_email_address",
     "failed_no_phone_number", "failed_invalid_request_data",
     "failed_internal_service_error"}

\* C6 as stated: every dispatch message handed to process_single_notification
\* puts exactly one StatusEvent on the status channel.
C6_ExactlyOneStatusEvent ==
    [][gen' = gen /\ sched' = sched =>
         \A m \in BagToSet(dispatchChan) :
         \A redeliver, log1_ok, log2_ok, publish_ok \in BOOLEAN :
            /\ m.reminder_mode = EndpointMode(m)
            /\ handle_notification_push(m, redeliver, log1_ok, log2_ok,
                                        publish_ok)
            => BagCardinality(statusChan') = BagCardinality(statusChan) + 1]_vars

\* C6 amended: every dispatch message handed to process_single_notification
\* leads to one publish of a StatusEvent.  When the publish succeeds, exactly
\* one event is added to the status channel; it names the message's reminder
\* and carries the outcome: the sender's result when the notification log
\* accepted both writes, a failed_* status otherwise.  When the publish fails
\* or the publisher is not configured, no event is added.
C6_OneStatusEventPerPublish ==
    [][gen' = gen /\ sched' = sched =>
         \A m \in BagToSet(dispatchChan) :
         \A redeliver, log1_ok, log2_ok, publish_ok \in BOOLEAN :
            /\ m.reminder_mode = EndpointMode(m)
            /\ handle_notification_push(m, redeliver, log1_ok, log2_ok,
                                        publish_ok)
            => IF publish_ok
               THEN \E e \in BagToSet(statusChan') :
                      /\ statusChan' = statusChan (+) SetToBag({e})
                      /\ e.original_reminder_id = m.original_reminder_id
                      /\ e.final_notification_status \in SendOutcomes
                      /\ log1_ok /\ log2_ok =>
                            e.final_notification_status = sender_send(m)[2]
                      /\ ~(log1_ok /\ log2_ok) =>
                            StartsWith(e.final_notification_status, "failed_")
               ELSE statusChan' = statusChan]_vars

\* two dispatch messages have been handled, one of them twice, and three
\* StatusEvents are in flight: for a send that succeeded, for a send that
\* returned a failure and for a handling in which a log write raised
C6_Witness ==
    /\ dispatchChan = EmptyBag
    /\ redelivered = 1
    /\ \E e \in BagToSet(statusChan) :
          e.final_notification_status = "failed_internal_service_error"
    /\ \E e \in BagToSet(statusChan) :
          e.final_notification_status = "failed_no_phone_number"
    /\ \E e \in BagToSet(statusChan) :
          e.final_notification_status = "sent_mock_email"

\* C7: a reminder that reaches queued_for_notification is closed out by the
\* Reconciler exactly once; so a reminder the Reconciler has closed out (it
\* recorded the outcome) is never queued_for_notification, which would wait
\* for a second close-out or for none.
C7_ClosedOutOnce ==
    \A id \in DOMAIN reminders :
       ~ /\ reminders[id].status = "queued_for_notification"
         /\ reminders[id].last_notification_outcome # NULL

\* C9: a scheduler run publishes a dispatch message, and changes the status,
\* only for reminders whose actual_reminder_time_utc has been reached.
C9_OnlyDueDispatched ==
    [][sched' # sched =>
         /\ \A m \in BagToSet(dispatchChan') :
               /\ CopiesIn(m, dispatchChan') > CopiesIn(m, dispatchChan)
               /\ m.original_reminder_id \in DOMAIN reminders
               => reminders[m.original_reminder_id].actual_reminder_time_utc
                     <= now
         /\ \A id \in Kept :
               /\ reminders[id].status = "pending"
               /\ reminders'[id].status # "pending"
               => reminders[id].actual_reminder_time_utc <= now]_vars

\* C10: a run dispatches only reminders that were pending when it selected
\* them, and publishes each of them at most once; so a reminder published
\* twice was selected by two runs, each while it was still pending.
C10_DispatchFromPendingSnapshot ==
    /\ \A r \in Runs : \A i \in 1..Len(sched[r].batch) :
          sched[r].batch[i].status = "pending"
    /\ \A id \in DOMAIN hist.published : hist.published[id] <= runs

\* two dispatch messages for one reminder are in flight, published by two
\* runs that overlap, and the reminder is still pending in the store
C10_Witness ==
    \E m \in BagToSet(dispatchChan) :
       /\ CopiesIn(m, dispatchChan) = 2
       /\ hist.published[m.original_reminder_id] = 2
       /\ sched[1].pc = "write" /\ sched[2].pc = "write"
       /\ m.original_reminder_id \in DOMAIN reminders
       /\ reminders[m.original_reminder_id].status = "pending"

\* The statuses a scheduler invocation gives a reminder it takes out of
\* pending without queueing it.
SchedulerFailed(status) ==
    status \in {"failed_user_not_found", "failed_invalid_user_data",
                "failed_unknown_mode", "failed_config_error",
                "failed_queueing", "error_validation", "error_processing"}

\* C11: no automatic requeue.  A reminder that has left pending never
\* returns to pending, a scheduler invocation selects only reminders that
\* are pending when it queries, and a failed status set by the scheduler is
\* permanent.
C11_NoRequeue ==
    [][/\ \A id \in Kept :
            /\ reminders[id].status # "pending"
                  => reminders'[id].status # "pending"
            /\ SchedulerFailed(reminders[id].status)
                  => reminders'[id].status = reminders[id].status
       /\ \A r \in Runs :
            sched[r].pc = "idle" /\ sched'[r].pc # "idle"
               => \A i \in 1..Len(sched'[r].batch) :
                     LET id == sched'[r].batch[i].reminder_id
                     IN id \in DOMAIN reminders
                        /\ reminders[id].status = "pending"]_vars

\* The statuses the loop body can decide for a reminder of the batch.
OwnOutcomes(reminder) ==
    {SchedulerOutcome(reminder, users[reminder.user_id],
                      settings.GCP_PROJECT_ID, ok) : ok \in BOOLEAN}

\* C12: per-item failure isolation.  Within one scheduler invocation a
\* reminder whose user document is missing is set to failed_user_not_found
\* and one whose user document is invalid to failed_invalid_user_data,
\* no dispatch message is published for it, the loop goes on to the next
\* reminder, and when the invocation ends every reminder of its batch has
\* been given an outcome of its own.
C12_PerItemIsolation ==
    [][\A r \in Runs :
         LET reminder == sched[r].batch[sched[r].k]
             user_snap == users[reminder.user_id]
             bad_user == ~user_snap.exists \/ ~ValidUserDocFromDB(user_snap)
         IN /\ sched[r].pc = "process" /\ sched'[r].pc = "write" /\ bad_user
               => /\ sched'[r].new_status =
                       IF user_snap.exists THEN "failed_invalid_user_data"
                       ELSE "failed_user_not_found"
                  /\ dispatchChan' = dispatchChan
            /\ sched[r].pc = "write" /\ sched'[r].pc # "write" /\ bad_user
               => /\ reminders'[reminder.reminder_id].status =
                       IF user_snap.exists THEN "failed_invalid_user_data"
                       ELSE "failed_user_not_found"
                  /\ \A id \in DOMAIN reminders \ {reminder.reminder_id} :
                        reminders'[id] = reminders[id]
                  /\ IF sched[r].k < Len(sched[r].batch)
                     THEN /\ sched'[r].pc = "process"
                          /\ sched'[r].k = sched[r].k + 1
                          /\ sched'[r].batch = sched[r].batch
                     ELSE sched'[r].pc = "idle"
            /\ sched[r].pc = "write" /\ sched'[r].pc = "idle"
               => \A i \in 1..Len(sched[r].batch) :
                     reminders'[sched[r].batch[i].reminder_id].status
                        \in OwnOutcomes(sched[r].batch[i])]_vars

\* One invocation has ended: the reminder of the user with no document is
\* failed_user_not_found with no dispatch message, and the reminder after it
\* in the batch is queued with its dispatch message in flight.
C12_Witness ==
    /\ runs = 1
    /\ \A r \in Runs : sched[r].pc = "idle"
    /\ ~users["u2"].exists
    /\ reminders[1].status = "failed_user_not_found"
    /\ reminders[2].status = "queued_for_notification"
    /\ \A m \in BagToSet(dispatchChan) : m.original_reminder_id = 2
    /\ dispatchChan # EmptyBag

\* The reminder invocation r is working on has a resolvable user and a
\* known mode.
Publishable(r) ==
    LET reminder == sched[r].batch[sched[r].k]
        user_snap == users[reminder.user_id]
    IN /\ user_snap.exists /\ ValidUserDocFromDB(user_snap)
       /\ target_topic_id(reminder.reminder_mode) # NULL

\* Invocation r's step is one publish attempt for its reminder and the
\* status decided from it, or the write of that status.
PublishesOnce(r) ==
    LET reminder == sched[r].batch[sched[r].k]
        topic == target_topic_id(reminder.reminder_mode)
        msg == notification_request_data(reminder,
                   users[reminder.user_id], topic)
    IN /\ sched[r].pc = "process" /\ sched'[r].pc = "write"
          => \/ /\ sched'[r].new_status = "queued_for_notification"
                /\ dispatchChan' = dispatchChan (+) SetToBag({msg})
             \/ /\ sched'[r].new_status = "failed_queueing"
                /\ dispatchChan' = dispatchChan
       /\ sched[r].pc = "write" /\ sched'[r].pc # "write"
          => /\ sched[r].new_status \in {"queued_for_notification",
                                         "failed_queueing"}
             /\ reminders'[reminder.reminder_id].status = sched[r].new_status
             /\ sched[r].new_status = "queued_for_notification"
                  => reminders'[reminder.reminder_id].published_to_topic
                        = topic

\* C13 as stated: for each valid pending reminder with a resolvable user and
\* a known mode the scheduler attempts exactly one publish to the topic of
\* the mode; on success the status becomes queued_for_notification with the
\* topic recorded in published_to_topic, on failure failed_queueing.
C13_OnePublishPerReminder ==
    [][\A r \in Runs :
         sched[r].pc \in {"process", "write"} /\ Publishable(r)
            => PublishesOnce(r)]_vars

\* C13, amended: the same, for a scheduler whose project id is configured.
C13_OnePublishWhenConfigured ==
    [][\A r \in Runs :
         /\ sched[r].pc \in {"process", "write"}
         /\ Publishable(r)
         /\ settings.GCP_PROJECT_ID # NULL
         => PublishesOnce(r)]_vars

\* One invocation has queued the email reminder of u1: its one dispatch
\* message is in flight and published_to_topic names the email topic, while
\* the publish for the phone reminder of u2 failed.
C13_Witness ==
    /\ runs = 1
    /\ settings.GCP_PROJECT_ID # NULL
    /\ reminders[2].status = "queued_for_notification"
    /\ reminders[2].published_to_topic = EMAIL_NOTIFICATIONS_TOPIC_ID
    /\ reminders[1].status = "failed_queueing"
    /\ \A m \in BagToSet(dispatchChan) :
          m.original_reminder_id = 2 /\ CopiesIn(m, dispatchChan) = 1
    /\ dispatchChan # EmptyBag

\* The positions of the queried documents that pass the read, in order.
RECURSIVE ValidSnapshots(_, _, _)
ValidSnapshots(snaps, unreadable, i) ==
    IF i > Len(snaps) THEN <<>>
    ELSE (IF snaps[i].reminder_id \notin unreadable
             /\ ValidReminderDocFromDB(snaps[i])
          THEN <<snaps[i]>> ELSE <<>>)
         \o ValidSnapshots(snaps, unreadable, i + 1)

\* C14: a stored pending reminder document that fails validation when the
\* scheduler reads it is set to error_validation (error_processing for any
\* other read error) and counted as skipped, no dispatch message is
\* published for it, and the remaining reminders of the batch are all
\* taken on for processing.
C14_InvalidDocumentSkipped ==
    [][/\ \A r \in Runs, unreadable \in SUBSET DOMAIN SchedulerStore :
            scheduler_query(r, unreadable)
            => LET pending == {id \in DOMAIN reminders :
                                  reminders[id].status = "pending"}
                   failed == {id \in pending :
                                 \/ id \in unreadable
                                 \/ ~ValidReminderDocFromDB(reminders[id])}
                   ids == SortedIds(pending)
                   snaps == [i \in 1..Len(ids) |-> reminders[ids[i]]]
               IN /\ \A id \in failed :
                        /\ reminders'[id].status =
                              IF id \in unreadable THEN "error_processing"
                              ELSE "error_validation"
                        /\ \A i \in 1..Len(sched'[r].batch) :
                              sched'[r].batch[i].reminder_id # id
                  /\ sched'[r].skipped = Cardinality(failed)
                  /\ sched'[r].batch = ValidSnapshots(snaps, unreadable, 1)
                  /\ \A id \in DOMAIN reminders \ failed :
                        reminders'[id] = reminders[id]
                  /\ dispatchChan' = dispatchChan
       /\ \A r \in Runs :
            sched[r].pc = "process" /\ dispatchChan' # dispatchChan
            => ValidReminderDocFromDB(sched[r].batch[sched[r].k])]_vars

\* One invocation has ended: the document without a custom_message is
\* error_validation, the document whose read failed is error_processing,
\* both are counted as skipped with no dispatch message, and the valid
\* reminder queried with them is queued.
C14_Witness ==
    /\ runs = 1
    /\ \A r \in Runs : sched[r].pc = "idle"
    /\ reminders[3].status = "error_validation"
    /\ reminders[1].status = "error_processing"
    /\ sched[1].skipped = 2
    /\ reminders[2].status = "queued_for_notification"
    /\ BagToSet(dispatchChan) # {}
    /\ \A m \in BagToSet(dispatchChan) : m.original_reminder_id = 2

\* The step is the Status Reconciler handling ev, of a stored reminder.
Reconciles(ev) ==
    /\ ev.original_reminder_id \in DOMAIN reminders
    /\ \E redeliver \in BOOLEAN :
          handle_reminder_status_update_push(ev, redeliver)

\* C15: the outcome "sent_mock_email" gives the reminder the status sent,
\* "failed_no_email_address" carrying no error text gives it
\* failed_notification_delivery, and "weird_new_outcome" gives it
\* status_update_weird_new_outcome.
C15_ClassificationExamples ==
    [][\A ev \in BagToSet(statusChan) :
         Reconciles(ev)
         => LET status == reminders'[ev.original_reminder_id].status
                outcome == ev.final_notification_status
            IN /\ outcome = "sent_mock_email" => status = "sent"
               /\ outcome = "failed_no_email_address"
                     /\ ev.error_detail = NULL
                  => status = "failed_notification_delivery"
               /\ outcome = "weird_new_outcome"
                  => status = "status_update_weird_new_outcome"]_vars

\* C16: success bucket.  For every outcome string that contains "sent" or
\* "delivered" the reminder's status becomes sent.
C16_SuccessBucket ==
    [][\A ev \in BagToSet(statusChan) :
         /\ Reconciles(ev)
         /\ \/ Contains("sent", ev.final_notification_status)
            \/ Contains("delivered", ev.final_notification_status)
         => reminders'[ev.original_reminder_id].status = "sent"]_vars

\* C17: failure bucket.  For every outcome string that contains "failed" and
\* is not in the success bucket the reminder's status becomes exactly
\* failed_notification_delivery, with or without error text; the outcome is
\* stored verbatim in last_notification_outcome and the error text, when
\* there is one, in last_notification_error_detail.
C17_FailureBucket ==
    [][\A ev \in BagToSet(statusChan) :
         /\ Reconciles(ev)
         /\ Contains("failed", ev.final_notification_status)
         /\ ~Contains("sent", ev.final_notification_status)
         /\ ~Contains("delivered", ev.final_notification_status)
         => LET doc == reminders'[ev.original_reminder_id]
            IN /\ doc.status = "failed_notification_delivery"
               /\ doc.last_notification_outcome = ev.final_notification_status
               /\ ev.error_detail # NULL
                  => doc.last_notification_error_detail = ev.error_detail]_vars

\* C18: a StatusEvent that names no stored reminder causes no write.  No
\* document is created or modified, process_reminder_status_update returns
\* False, and the event is not put back on a channel nor followed by any
\* other write.
C18_MissingTargetNoWrite ==
    [][\A ev \in BagToSet(statusChan), redeliver \in BOOLEAN :
         /\ ev.original_reminder_id \notin DOMAIN reminders
         /\ handle_reminder_status_update_push(ev, redeliver)
         => /\ reminders' = reminders
            /\ ~process_reminder_status_update_returns(reminders, ev)
            /\ \A e \in BagToSet(statusChan') :
                  CopiesIn(e, statusChan') <= CopiesIn(e, statusChan)
            /\ ~redeliver => CopiesIn(ev, statusChan')
                                = CopiesIn(ev, statusChan) - 1
            /\ dispatchChan' = dispatchChan
            /\ attemptLog' = attemptLog]_vars

\* Every StatusEvent has been handled, none of them redelivered, and the
\* store is as it was: the events named no stored reminder.
C18_Witness ==
    /\ statusChan = EmptyBag
    /\ redelivered = 0
    /\ reminders = ReconcilerStore

\* C19: applying the same StatusEvent twice leaves the reminder with the
\* status, last_notification_outcome and error detail that applying it once
\* leaves, whatever the store held before.
C19_ReapplyingIsIdempotent ==
    \A ev \in StatusEvents :
       LET once == process_reminder_status_update(reminders, ev)
           twice == process_reminder_status_update(once, ev)
       IN /\ DOMAIN twice = DOMAIN once
          /\ \A id \in DOMAIN once :
                /\ twice[id].status = once[id].status
                /\ twice[id].last_notification_outcome
                      = once[id].last_notification_outcome
                /\ twice[id].last_notification_error_detail
                      = once[id].last_notification_error_detail

\* An event with error text has been delivered twice to the Status
\* Reconciler and handled both times: reminder 2 holds its outcome and its
\* error text once.
C19_Witness ==
    /\ redelivered = 1
    /\ statusChan = EmptyBag
    /\ reminders[1] = ReconcilerStore[1]
    /\ reminders[2].last_notification_outcome = "failed_provider_error"
    /\ reminders[2].last_notification_error_detail = "smtp timeout"
    /\ reminders[2].status = "failed_notification_delivery"

\* C20: handling one StatusEvent modifies only the reminder named by the
\* event's reminder id, whatever the event's user id and mode say; every
\* other reminder is unchanged and no reminder is created or deleted.
C20_OnlyNamedReminder ==
    [][\A ev \in BagToSet(statusChan), redeliver \in BOOLEAN :
         handle_reminder_status_update_push(ev, redeliver)
         => /\ DOMAIN reminders' = DOMAIN reminders
            /\ \A id \in DOMAIN reminders \ {ev.original_reminder_id} :
                  reminders'[id] = reminders[id]]_vars

\* An event whose user id and mode are those of the other reminder has been
\* handled (and is delivered again): the reminder it names holds its
\* outcome, the reminder of that user and mode is untouched.
C20_Witness ==
    /\ redelivered = 1
    /\ \E ev \in BagToSet(statusChan) :
          /\ ev.original_reminder_id = 2
          /\ ev.user_id = reminders[1].user_id
          /\ ev.reminder_mode = reminders[1].reminder_mode
          /\ reminders[2].last_notification_outcome
                = ev.final_notification_status
    /\ reminders[1] = ReconcilerStore[1]

\* A JSON response with a selection that fails validation next to a
\* well-formed selection of an in-window fixture.
MalformedAmongWellFormed(resp) ==
    /\ resp.kind = "json"
    /\ \E i \in 1..Len(resp.items) :
          ~ValidLLMSelectedFixtureResponse(resp.items[i])
    /\ \E i \in 1..Len(resp.items) :
          /\ ValidLLMSelectedFixtureResponse(resp.items[i])
          /\ resp.items[i].fixture_id
                \in Range(fetch_upcoming_fixtures(fixtures, now))

\* C21 as stated: when one selection of the response is malformed it is
\* skipped and the pass goes on, without aborting, to create the reminders
\* of the well-formed selections of the same response.
C21_MalformedSelectionSkipped ==
    [][passes' # passes =>
         \A resp \in LLMResponses :
            /\ MalformedAmongWellFormed(resp)
            /\ process_fixtures_for_user(gen'.user_id, TRUE, resp)
            => /\ gen'.pc = "clear_query"
               /\ gen'.selected = ValidItems(resp.items, 1, <<>>)]_vars

\* C21, amended: when one selection of the response is malformed the whole
\* response is rejected; the pass ends with LLMResponseError without
\* clearing or creating anything, so the well-formed selections of that
\* response get no reminder either.
C21_MalformedSelectionRejectsResponse ==
    [][passes' # passes =>
         \A resp \in LLMResponses :
            /\ MalformedAmongWellFormed(resp)
            /\ process_fixtures_for_user(gen'.user_id, TRUE, resp)
            => /\ gen'.pc = "error" /\ gen'.result = "LLMResponseError"
               /\ gen'.selected = <<>> /\ gen'.to_create = <<>>
               /\ DOMAIN reminders' = DOMAIN reminders
               /\ nextId' = nextId]_vars

\* The first pass has ended with LLMResponseError and the store is empty:
\* no reminder was created for any selection of its response.
C21_Witness ==
    /\ passes = 1
    /\ gen.pc = "error"
    /\ gen.result = "LLMResponseError"
    /\ DOMAIN reminders = {}
    /\ nextId = 1

\* The reminders the step creates.
Created == DOMAIN reminders' \ DOMAIN reminders

\* C22: a selection that names a fixture id outside the in-window fixture
\* set is dropped without failing the pass.  The pass creates no reminder
\* for it, creates reminders for every other selection of the response that
\* names a known fixture, and ends normally.
C22_UnknownFixtureDropped ==
    [][/\ /\ gen.pc \in {"clear_query", "clear_commit"}
          /\ gen'.pc \notin {"clear_query", "clear_commit"}
          /\ \E i \in 1..Len(gen.selected) :
                /\ gen.selected[i].fixture_id \in Range(gen.fixture_ids)
                /\ gen.selected[i].reminder_triggers # <<>>
          => gen'.pc = "store"
       /\ /\ gen.pc = "store" /\ gen' # gen
          /\ Len(gen.to_create) <= CREATE_BATCH_LIMIT
          /\ \E i \in 1..Len(gen.selected) :
                gen.selected[i].fixture_id \notin Range(gen.fixture_ids)
          => /\ \A id \in Created :
                   reminders'[id].fixture_id \in Range(gen.fixture_ids)
             /\ \A i \in 1..Len(gen.selected) :
                   /\ gen.selected[i].fixture_id \in Range(gen.fixture_ids)
                   /\ gen.selected[i].reminder_triggers # <<>>
                   => \E id \in Created :
                         /\ reminders'[id].fixture_id
                               = gen.selected[i].fixture_id
                         /\ reminders'[id].user_id = gen.user_id
             /\ gen'.pc = "done" /\ gen'.result = "ok"]_vars

\* A pass whose response selected the unknown fixture f9 and the in-window
\* fixture f2 has ended normally: there is a reminder for f2 and none for f9.
C22_Witness ==
    /\ gen.pc = "done" /\ gen.result = "ok"
    /\ hist.last.valid
    /\ \E i \in 1..Len(hist.last.selected) :
          hist.last.selected[i].fixture_id = "f9"
    /\ \E id \in DOMAIN reminders :
          /\ reminders[id].fixture_id = "f2"
          /\ reminders[id].user_id = hist.last.user_id
    /\ \A id \in DOMAIN reminders : reminders[id].fixture_id # "f9"

\* What a reminder is created with: user, fixture, kickoff, offset, mode,
\* message and trigger instant.
CreatedWith(doc) ==
    <<doc.user_id, doc.fixture_id, doc.reminder_mode, doc.custom_message,
      doc.kickoff_time_utc, doc.reminder_offset_minutes_before_kickoff,
      doc.actual_reminder_time_utc, doc.importance_score>>

\* C24: the trigger instant of a reminder never changes after creation.  No
\* status write of the scheduler and no update of the Status Reconciler
\* changes the trigger instant, kickoff, offset, user id, fixture id, mode
\* or message of a stored reminder; they change only the status and the
\* side fields that go with it.
C24_CreationFieldsFrozen ==
    [][\A id \in Kept :
         /\ CreatedWith(reminders'[id]) = CreatedWith(reminders[id])
         /\ reminders'[id].reminder_id = id]_vars

\* The scheduler has queued reminder 2 and failed the document it could not
\* validate, and the Status Reconciler has closed reminder 2 out: both still
\* hold the fields they were stored with.
C24_Witness ==
    /\ reminders[2].status = "sent"
    /\ reminders[2].published_to_topic = EMAIL_NOTIFICATIONS_TOPIC_ID
    /\ reminders[2].last_notification_outcome = "sent_mock_email"
    /\ reminders[3].status = "error_validation"
    /\ CreatedWith(reminders[2]) = CreatedWith(SchedulerStore[2])
    /\ CreatedWith(reminders[3]) = CreatedWith(SchedulerStore[3])

\* The step removes reminder id in a delete batch of a generation pass for
\* the reminder's user whose in-window fixtures contain its fixture.
ReplacedByPass(id) ==
    /\ gen.pc = "clear_commit"
    /\ gen.user_id = reminders[id].user_id
    /\ reminders[id].fixture_id \in Range(gen.fixture_ids)

\* C25 as stated: a stored reminder is removed only by a generation pass for
\* the same user whose in-window fixture set contains the reminder's
\* fixture; no other operation deletes a reminder.
C25_OnlyReplacementDeletes ==
    [][\A id \in DOMAIN reminders \ DOMAIN reminders' : ReplacedByPass(id)]_vars

\* C25, amended: a stored reminder is removed only by such a generation
\* pass or by delete_future_reminders, which removes reminders whose kickoff
\* is in the future and no others.
C25_ReplacementOrCleanupDeletes ==
    [][\A id \in DOMAIN reminders \ DOMAIN reminders' :
          \/ ReplacedByPass(id)
          \/ /\ delete_future_reminders
             /\ reminders[id].kickoff_time_utc > now]_vars

\* One pass has stored a reminder and no pass has run since, yet the
\* reminder is gone although the scheduler had queued it: it was removed by
\* delete_future_reminders.
C25_Witness ==
    /\ passes = 1
    /\ gen.pc = "done"
    /\ nextId = 2
    /\ DOMAIN reminders = {}
    /\ hist.published # <<>>

\* A step that completes a pass which had selections.
PassCompletes ==
    /\ gen.pc \in {"clear_query", "clear_commit", "store"}
    /\ gen'.pc = "done"

\* The pairs (selection, trigger) of the selections with a known fixture.
KnownTriggers(selected, fixture_ids) ==
    UNION {{<<i, j>> : j \in 1..Len(selected[i].reminder_triggers)} :
             i \in {k \in 1..Len(selected) :
                       selected[k].fixture_id \in Range(fixture_ids)}}

\* What the reminder of one trigger has to be: user, fixture, status,
\* kickoff T, trigger instant T - m, mode and message.
ReminderOfTrigger(uid, item, trigger, T) ==
    <<uid, item.fixture_id, "pending", T,
      T - trigger.reminder_offset_minutes_before_kickoff,
      trigger.reminder_mode, trigger.custom_message>>

ReminderFields(doc) ==
    <<doc.user_id, doc.fixture_id, doc.status, doc.kickoff_time_utc,
      doc.actual_reminder_time_utc, doc.reminder_mode, doc.custom_message>>

\* The bag of the values f takes on S.
BagOf(S, f(_)) ==
    [c \in {f(x) : x \in S} |-> Cardinality({x \in S : f(x) = c})]

\* C23: when a pass completes, the reminders it created are, as a bag, one
\* reminder per trigger of every selection naming a known fixture: status
\* pending, the fixture's kickoff T, trigger instant T minus the offset, the
\* trigger's mode and message; and their number is the number of those
\* triggers.
C23_OneReminderPerTrigger ==
    [][PassCompletes =>
        LET uid == gen.user_id
            created == {id \in DOMAIN reminders' : id >= hist'.start_id}
            pairs == KnownTriggers(gen.selected, gen.fixture_ids)
            Expected(p) ==
                ReminderOfTrigger(uid, gen.selected[p[1]],
                    gen.selected[p[1]].reminder_triggers[p[2]],
                    fixtures[gen.selected[p[1]].fixture_id])
            Stored(id) == ReminderFields(reminders'[id])
        IN /\ Cardinality(created) = Cardinality(pairs)
           /\ BagOf(created, Stored) = BagOf(pairs, Expected)]_vars

\* A pass has completed whose selections held one of an unknown fixture,
\* one with two triggers and others with one, and it created reminders.
C23_Witness ==
    /\ gen.pc = "done" /\ gen.result = "ok" /\ hist.last.valid
    /\ nextId > hist.start_id
    /\ \E i, k \in 1..Len(hist.last.selected) :
          /\ hist.last.selected[i].fixture_id \notin Range(hist.last.fixture_ids)
          /\ hist.last.selected[k].fixture_id \in Range(hist.last.fixture_ids)
          /\ Len(hist.last.selected[k].reminder_triggers) = 2

\* ceil(n / d)
CeilDiv(n, d) == (n + d - 1) \div d

\* A step on which _clear_old_pending_reminders returns.
ClearReturns ==
    /\ gen.pc \in {"clear_query", "clear_commit"}
    /\ gen'.pc \in {"store", "done"}

\* C27: when _clear_old_pending_reminders returns for n in-window fixture
\* ids it has issued ceil(n/30) queries (1, 2, 3 for n = 30, 31, 61), each
\* over 1 to 30 ids, every id is in exactly one position of exactly one
\* chunk, and no pending reminder of the user for one of the n fixtures is
\* left in the store.
C27_ChunkBoundaries ==
    [][ClearReturns =>
        LET n == Len(gen.fixture_ids)
            chunks == hist'.chunks
            places(f) == {<<k, j>> \in (1..Len(chunks)) \X
                                       (1..MAX_IN_QUERY_VALUES) :
                             j <= Len(chunks[k]) /\ chunks[k][j] = f}
        IN /\ Len(chunks) = CeilDiv(n, MAX_IN_QUERY_VALUES)
           /\ n = 30 => Len(chunks) = 1
           /\ n = 31 => Len(chunks) = 2
           /\ n = 61 => Len(chunks) = 3
           /\ \A k \in 1..Len(chunks) :
                 /\ Len(chunks[k]) \in 1..MAX_IN_QUERY_VALUES
                 /\ Range(chunks[k]) \subseteq Range(gen.fixture_ids)
           /\ \A f \in Range(gen.fixture_ids) : Cardinality(places(f)) = 1
           /\ \A id \in DOMAIN reminders' :
                 ~ /\ reminders'[id].user_id = gen.user_id
                   /\ reminders'[id].fixture_id \in Range(gen.fixture_ids)
                   /\ reminders'[id].status = "pending"]_vars

\* The clearing has returned after three queries, each of which found
\* pending reminders and deleted them.
C27_Witness ==
    /\ gen.pc = "store"
    /\ Len(hist.chunks) = 3
    /\ Len(hist.deletes) = 3
    /\ Len(hist.chunks[3]) = 1

RECURSIVE SumSeq(_)
SumSeq(q) == IF q = <<>> THEN 0 ELSE q[1] + SumSeq(Tail(q))

\* C28: a pass that creates n reminders commits ceil(n/490) create batches
\* (1, 2, 2 for n = 490, 491, 980), none of them empty and none over 490
\* items; the batches hold n items together, and the n reminders are in
\* the store under n distinct ids once the last batch is committed.
C28_BatchCommitBoundary ==
    [][PassCompletes =>
        LET n == Cardinality(KnownTriggers(gen.selected, gen.fixture_ids))
            commits == hist'.commits
            created == {id \in DOMAIN reminders' : id >= hist'.start_id}
        IN /\ Len(commits) = CeilDiv(n, CREATE_BATCH_LIMIT)
           /\ n = 490 => Len(commits) = 1
           /\ n = 491 => Len(commits) = 2
           /\ n = 980 => Len(commits) = 2
           /\ \A k \in 1..Len(commits) :
                 commits[k] \in 1..CREATE_BATCH_LIMIT
           /\ SumSeq(commits) = n
           /\ Cardinality(created) = n]_vars

\* One full create batch is committed and one reminder is still to be
\* written.
C28_Witness ==
    /\ gen.pc = "store"
    /\ hist.commits = <<CREATE_BATCH_LIMIT>>
    /\ Len(gen.to_create) = 1

\* The pass in progress has the user and the output (selections over the
\* same in-window fixtures) of a pass that stopped after it had committed
\* a delete batch or a create batch, and no pass has completed since.
HealsCrashedPass ==
    /\ hist.crashed.valid
    /\ hist.crashed.deletes # <<>> \/ hist.crashed.commits # <<>>
    /\ hist.crashed.user_id = gen.user_id
    /\ hist.crashed.selected = gen.selected
    /\ hist.crashed.fixture_ids = gen.fixture_ids

\* C26: when a pass completes that repeats a pass stopped between committed
\* batches, the user's pending reminders for the in-window fixtures are, as
\* a bag, one per trigger of the selections with a known fixture, which is
\* what one uninterrupted pass leaves: nothing of the stopped pass, or of
\* the passes before it, is left beside them.
C26_CrashedPassHealed ==
    [][PassCompletes /\ HealsCrashedPass =>
        LET uid == gen.user_id
            pending == {id \in DOMAIN reminders' :
                           /\ reminders'[id].user_id = uid
                           /\ reminders'[id].fixture_id \in
                                  Range(gen.fixture_ids)
                           /\ reminders'[id].status = "pending"}
            pairs == KnownTriggers(gen.selected, gen.fixture_ids)
            Expected(p) ==
                ReminderOfTrigger(uid, gen.selected[p[1]],
                    gen.selected[p[1]].reminder_triggers[p[2]],
                    fixtures[gen.selected[p[1]].fixture_id])
            Stored(id) == ReminderFields(reminders'[id])
        IN BagOf(pending, Stored) = BagOf(pairs, Expected)]_vars

\* A pass stopped after its first create batch, and the next pass with the
\* same output has completed after deleting what the stopped pass left.
C26_Witness ==
    /\ gen.pc = "done" /\ gen.result = "ok"
    /\ ~hist.crashed.valid
    /\ hist.crashed.commits = <<CREATE_BATCH_LIMIT>>
    /\ hist.last.valid
    /\ hist.last.selected = hist.crashed.selected
    /\ hist.deletes # <<>>
    /\ Len(hist.commits) = 2

\* The attempt records of one notification_log_id.
RecordsOf(log, log_id) == {rec \in log : rec.notification_log_id = log_id}

\* C29: a task invokes send only when its "processing" record is in the
\* log; it publishes its StatusEvent only when the record of the same id
\* has been updated to the outcome that send returned, which is the outcome
\* the event carries; a record id never names two records, and a record
\* that has left "processing" does not return to it.
C29_SenderProcessingOrder ==
    [][/\ \A k \in 1..Len(tasks) :
            /\ task_send(k) =>
                  /\ tasks[k].log_id # 0
                  /\ RecordsOf(attemptLog, tasks[k].log_id) =
                        {AttemptRecord(tasks[k].log_id, tasks[k].payload,
                                       "processing", NULL)}
            /\ (\E publish_ok \in BOOLEAN : task_publish(k, publish_ok)) =>
                  /\ tasks[k].final_status = sender_send(tasks[k].payload)[2]
                  /\ RecordsOf(attemptLog, tasks[k].log_id) =
                        {AttemptRecord(tasks[k].log_id, tasks[k].payload,
                                       tasks[k].final_status, NULL)}
                  /\ \A ev \in BagToSet(statusChan') :
                        CopiesIn(ev, statusChan') > CopiesIn(ev, statusChan)
                        => /\ ev.original_reminder_id =
                                 tasks[k].payload.original_reminder_id
                           /\ ev.final_notification_status =
                                 tasks[k].final_status
       /\ BagToSet(statusChan') \subseteq BagToSet(statusChan)
          \/ \E k \in 1..Len(tasks), publish_ok \in BOOLEAN :
                task_publish(k, publish_ok)
       /\ \A rec \in attemptLog' :
            Cardinality(RecordsOf(attemptLog', rec.notification_log_id)) = 1
       /\ \A rec \in attemptLog, rec2 \in attemptLog' :
            /\ rec.notification_log_id = rec2.notification_log_id
            /\ rec.status # "processing"
            => rec2.status # "processing"]_vars

\* A task has published the StatusEvent of a send that failed, after the
\* record it wrote as "processing" was updated to that outcome.
C29_Witness ==
    \E k \in 1..Len(tasks) :
       /\ tasks[k].pc = "done"
       /\ tasks[k].final_status = "failed_no_phone_number"
       /\ AttemptRecord(tasks[k].log_id, tasks[k].payload,
                        "failed_no_phone_number", NULL) \in attemptLog
       /\ \E ev \in BagToSet(statusChan) :
             /\ ev.original_reminder_id =
                   tasks[k].payload.original_reminder_id
             /\ ev.final_notification_status = "failed_no_phone_number"

\* The reminder's dispatch message was acknowledged and every task added
\* for it was lost before it published: the reminder is queued, and no
\* dispatch message and no StatusEvent for it is in a channel.
Dropped(id) ==
    /\ id \in DOMAIN reminders
    /\ reminders[id].status = "queued_for_notification"
    /\ \E k \in 1..Len(tasks) : tasks[k].payload.original_reminder_id = id
    /\ \A k \in 1..Len(tasks) :
          tasks[k].payload.original_reminder_id = id
          => tasks[k].pc = "stopped"
    /\ \A m \in BagToSet(dispatchChan) : m.original_reminder_id # id
    /\ \A ev \in BagToSet(statusChan) : ev.original_reminder_id # id

\* C30: the acknowledgment of a dispatch message adds its task without
\* running any of it (no attempt record, no StatusEvent, no change of the
\* reminder); when the Sender stops, the lost tasks' messages are not put
\* back on the dispatch channel and no StatusEvent is published for them;
\* and once a reminder is dropped in this way it stays dropped on every
\* later step of the scheduler, the Sender and the Reconciler: still
\* queued_for_notification, with no message, task or StatusEvent for it.
C30_AckThenStopDropsResolution ==
    [][/\ \A m \in BagToSet(dispatchChan), redeliver \in BOOLEAN :
            sender_ack(m, redeliver) /\ Len(tasks') > Len(tasks)
            => /\ tasks'[Len(tasks')].pc = "added"
               /\ tasks'[Len(tasks')].payload = m
               /\ attemptLog' = attemptLog
               /\ statusChan' = statusChan
               /\ reminders' = reminders
       /\ (\E k \in 1..Len(tasks) :
               tasks[k].pc # "stopped" /\ tasks'[k].pc = "stopped")
          => /\ dispatchChan' = dispatchChan
             /\ statusChan' = statusChan
             /\ reminders' = reminders
       /\ \A id \in DOMAIN reminders : Dropped(id) => Dropped(id)']_vars

\* A reminder was dropped and the scheduler has run again since: it is
\* still queued_for_notification and nothing is in flight for it.
C30_Witness ==
    \E id \in DOMAIN reminders :
       /\ Dropped(id)
       /\ runs = MaxSchedulerRuns
       /\ sched[1].pc = "idle"

\* The dispatch messages a step puts on the dispatch channel.
Published ==
    {m \in BagToSet(dispatchChan') :
        CopiesIn(m, dispatchChan') > CopiesIn(m, dispatchChan)}

\* C31: every dispatch message the scheduler publishes names a stored
\* reminder and carries its id, user id, fixture id, message text, mode and
\* kickoff instant, and its contact email is the email stored for the
\* reminder's user.
C31_DispatchMessageContent ==
    [][\A m \in Published :
         /\ m.original_reminder_id \in DOMAIN reminders
         /\ LET reminder == reminders[m.original_reminder_id]
            IN /\ m.user_id = reminder.user_id
               /\ m.fixture_id = reminder.fixture_id
               /\ m.message_content = reminder.custom_message
               /\ m.reminder_mode = reminder.reminder_mode
               /\ m.kickoff_time_utc = reminder.kickoff_time_utc
               /\ m.contact_email = users[reminder.user_id].email]_vars

\* The message of u1's email reminder is on the email topic with u1's
\* email address, and the reminder is queued.
C31_Witness ==
    /\ reminders[2].status = "queued_for_notification"
    /\ \E m \in BagToSet(dispatchChan) :
          /\ m.original_reminder_id = 2
          /\ m.contact_email = "u1@example.com"
          /\ m.message_content = "go"

\* C32: send returns (false, "failed_no_email_address") or (true,
\* "sent_mock_email") for an email message without or with a contact email,
\* (false, "failed_no_phone_number") or (true, "sent_mock_phone_call") for
\* a phone message without or with a contact phone; the flag is true
\* exactly when the outcome starts with "sent"; and the task's publish
\* hands the status channel one StatusEvent with that outcome.
C32_SenderResults ==
    [][\A k \in 1..Len(tasks) :
         LET payload == tasks[k].payload
             expected ==
                 IF payload.reminder_mode = "email"
                 THEN IF payload.contact_email = NULL
                      THEN <<FALSE, "failed_no_email_address">>
                      ELSE <<TRUE, "sent_mock_email">>
                 ELSE IF payload.contact_phone = NULL
                      THEN <<FALSE, "failed_no_phone_number">>
                      ELSE <<TRUE, "sent_mock_phone_call">>
         IN /\ task_send(k) =>
                  /\ sender_send(payload) = expected
                  /\ sender_send(payload)[1] <=>
                        StartsWith(sender_send(payload)[2], "sent")
                  /\ tasks'[k].final_status = expected[2]
            /\ (\E publish_ok \in BOOLEAN : task_publish(k, publish_ok)) =>
                  \E ok \in BOOLEAN :
                     statusChan' = statusChan (+)
                        publish_status_update(payload, expected[2], NULL,
                                              ok)]_vars

\* The StatusEvent of an email message without a contact email is on the
\* status channel with the outcome failed_no_email_address.
C32_Witness ==
    \E k \in 1..Len(tasks), ev \in BagToSet(statusChan) :
       /\ tasks[k].pc = "done"
       /\ tasks[k].payload.reminder_mode = "email"
       /\ tasks[k].payload.contact_email = NULL
       /\ ev.original_reminder_id = tasks[k].payload.original_reminder_id
       /\ ev.final_notification_status = "failed_no_email_address"

\* A step on which a pass returns without error after the generation call:
\* at once when no selection was parsed, or with its last clearing or
\* storing step.
PassReturnsOk ==
    /\ gen'.pc = "done" /\ gen'.result = "ok"
    /\ passes' = passes + 1 \/ PassCompletes

\* C33: when a pass returns without error, the pending reminders of its
\* user for the in-window fixtures are exactly the reminders the pass
\* created, also when it parsed no selection or only selections of unknown
\* fixtures.
C33_ReplacementPostcondition ==
    [][PassReturnsOk =>
        LET uid == gen'.user_id
            window == Range(fetch_upcoming_fixtures(fixtures, now))
            pending == {id \in DOMAIN reminders' :
                           /\ reminders'[id].user_id = uid
                           /\ reminders'[id].fixture_id \in window
                           /\ reminders'[id].status = "pending"}
            created == {id \in DOMAIN reminders' : id >= hist'.start_id}
        IN pending = created]_vars

\* The modes a topic is configured for.
KnownModes == {"email", "phone_call_mock"}

\* C34: a message the scheduler publishes for an email reminder goes to the
\* email topic and one for a phone_call_mock reminder to the phone-mock
\* topic, and nothing else is published; a reminder of any other mode is
\* set to failed_unknown_mode, and a reminder of a known mode processed
\* while no project id is configured to failed_config_error, both without a
\* publish.
C34_ChannelKeyedByMode ==
    [][/\ \A m \in Published :
             /\ m.reminder_mode
                   = reminders[m.original_reminder_id].reminder_mode
             /\ \/ /\ m.reminder_mode = "email"
                   /\ m.topic = EMAIL_NOTIFICATIONS_TOPIC_ID
                \/ /\ m.reminder_mode = "phone_call_mock"
                   /\ m.topic = PHONE_MOCK_NOTIFICATIONS_TOPIC_ID
       /\ \A r \in Runs :
             sched[r].pc \in {"process", "write"} =>
             LET reminder == sched[r].batch[sched[r].k]
                 user_snap == users[reminder.user_id]
                 resolved == user_snap.exists /\ ValidUserDocFromDB(user_snap)
                 expected ==
                     IF reminder.reminder_mode \notin KnownModes
                     THEN "failed_unknown_mode"
                     ELSE "failed_config_error"
                 unpublishable ==
                     \/ reminder.reminder_mode \notin KnownModes
                     \/ settings.GCP_PROJECT_ID = NULL
             IN resolved /\ unpublishable =>
                  /\ sched[r].pc = "process" /\ sched'[r].pc = "write"
                       => /\ sched'[r].new_status = expected
                          /\ dispatchChan' = dispatchChan
                  /\ sched[r].pc = "write" /\ sched'[r].pc # "write"
                       => /\ reminders'[reminder.reminder_id].status = expected
                          /\ dispatchChan' = dispatchChan
                  /\ \A m \in BagToSet(dispatchChan') :
                        m.original_reminder_id # reminder.reminder_id]_vars

\* The email reminder of u1 is queued with its message on the email topic,
\* the phone reminder of u2 with its message on the phone-mock topic, and
\* the sms reminder is set to failed_unknown_mode with no message for it.
C34_Witness ==
    /\ reminders[4].status = "failed_unknown_mode"
    /\ reminders[2].status = "queued_for_notification"
    /\ reminders[1].status = "queued_for_notification"
    /\ \A m \in BagToSet(dispatchChan) :
          /\ m.original_reminder_id \in {1, 2}
          /\ m.original_reminder_id = 2
                => m.topic = EMAIL_NOTIFICATIONS_TOPIC_ID
          /\ m.original_reminder_id = 1
                => m.topic = PHONE_MOCK_NOTIFICATIONS_TOPIC_ID
    /\ \E m \in BagToSet(dispatchChan) : m.original_reminder_id = 1
    /\ \E m \in BagToSet(dispatchChan) : m.original_reminder_id = 2

\* C35: no write batch the generator commits holds more than 490
\* operations: a step deletes at most 490 reminders and creates at most
\* 490, and every batch of the pass counted at most 490 operations.
C35_WriteBatchBound ==
    [][/\ Cardinality(DOMAIN reminders \ DOMAIN reminders')
             <= MAX_OPS_PER_WRITE_BATCH
       /\ Cardinality(DOMAIN reminders' \ DOMAIN reminders)
             <= CREATE_BATCH_LIMIT
       /\ \A k \in 1..Len(hist'.deletes) :
             hist'.deletes[k] \in 1..MAX_OPS_PER_WRITE_BATCH
       /\ \A k \in 1..Len(hist'.commits) :
             hist'.commits[k] \in 1..CREATE_BATCH_LIMIT]_vars

\* A pass found more than 490 old reminders in one chunk and deleted them
\* in more than one batch, the first of them full, and it has committed a
\* full create batch with reminders still to be written.
C35_Witness ==
    /\ gen.pc = "store"
    /\ Len(hist.deletes) >= 2
    /\ hist.deletes[1] = MAX_OPS_PER_WRITE_BATCH
    /\ hist.commits = <<CREATE_BATCH_LIMIT>>
    /\ gen.to_create # <<>>

\* C36: a step of a pass for user U deletes only reminders of U whose
\* fixture is in the pass's in-window fixture set, creates only reminders
\* of U, and leaves every other stored reminder as it was.
C36_ScopeOfReplacement ==
    [][/\ \A id \in DOMAIN reminders \ DOMAIN reminders' :
             /\ reminders[id].user_id = gen.user_id
             /\ reminders[id].fixture_id \in Range(gen.fixture_ids)
       /\ \A id \in DOMAIN reminders' \ DOMAIN reminders :
             reminders'[id].user_id = gen.user_id
       /\ \A id \in DOMAIN reminders \cap DOMAIN reminders' :
             reminders'[id] = reminders[id]]_vars

\* A pass for u1 has deleted an old reminder and created a new one while
\* a reminder of u2 and a reminder of u1 for a fixture that has left the
\* window are still in the store.
C36_Witness ==
    /\ gen.user_id = "u1"
    /\ gen.pc = "done"
    /\ hist.deletes # <<>>
    /\ hist.commits # <<>>
    /\ \E id \in DOMAIN reminders : reminders[id].user_id = "u2"
    /\ \E id \in DOMAIN reminders :
          /\ reminders[id].user_id = "u1"
          /\ id < hist.start_id
          /\ reminders[id].fixture_id
                \notin Range(fetch_upcoming_fixtures(fixtures, now))

\* The two stored reminders are of one user and one (fixture, offset,
\* mode) trigger.
SameTrigger(a, b) ==
    /\ a.user_id = b.user_id
    /\ a.fixture_id = b.fixture_id
    /\ a.reminder_offset_minutes_before_kickoff
          = b.reminder_offset_minutes_before_kickoff
    /\ a.reminder_mode = b.reminder_mode

\* C37: the dispatch messages published for the stored reminders of one
\* user and one (fixture, offset, mode) trigger are at most one in all: a
\* reminder is published at most once, and no second reminder of the
\* trigger is published after the first was.
C37_OneDispatchPerTrigger ==
    \A id1, id2 \in DOMAIN reminders :
       SameTrigger(reminders[id1], reminders[id2]) =>
          CountOf(hist.published, id1)
             + (IF id1 = id2 THEN 0 ELSE CountOf(hist.published, id2)) <= 1

\* C38: over scheduler invocations that do not overlap, at most one
\* dispatch message is published for any one reminder, also when the
\* status write that follows a publish attempt fails.
C38_OneDispatchPerReminder ==
    \A id \in DOMAIN reminders :
       /\ CountOf(hist.published, id) <= 1
       /\ \A m \in BagToSet(dispatchChan) :
             m.original_reminder_id = id => CopiesIn(m, dispatchChan) <= 1

\* C39: when the "processing" record was written and send returned its
\* outcome for a delivered message, the StatusEvent published for the
\* message carries that outcome and no error text, whether or not the
\* update of the attempt record that follows succeeds.
C39_StatusEventCarriesSendOutcome ==
    [][\A m \in BagToSet(dispatchChan) :
         \A redeliver, log2_ok, publish_ok \in BOOLEAN :
            /\ m.reminder_mode = EndpointMode(m)
            /\ SupportedMode(m.reminder_mode)
            /\ handle_notification_push(m, redeliver, TRUE, log2_ok,
                                        publish_ok)
            => statusChan' = statusChan (+)
                  publish_status_update(m, sender_send(m)[2], NULL,
                                        publish_ok)]_vars

\* Invocation r returns its summary on this step: after the last
\* iteration of its loop, or from the query when nothing valid was read.
RunCompletes(r) ==
    /\ sched'[r].pc = "idle"
    /\ sched[r].pc # "idle" \/ (sched'[r] # sched[r] /\ runs' = runs + 1)

\* C40: in the summary of every completed scheduler run the queried total
\* is the sum of the queued, failed and skipped counts, the count of valid
\* reminders processed, when the summary has it, is the sum of the queued
\* and failed counts, and the queued count is the number of publishes of
\* the run that succeeded.
C40_SummaryCountsAddUp ==
    [][\A r \in Runs :
         RunCompletes(r) =>
            LET summary == sched'[r]
            IN /\ summary.total
                     = summary.queued + summary.failed + summary.skipped
               /\ summary.has_valid
                     => summary.valid = summary.queued + summary.failed
               /\ summary.published = summary.queued]_vars

\* A run over four pending reminders has returned: two were queued, the
\* reminder of an unknown mode failed and the malformed one was skipped.
C40_Witness ==
    /\ sched[1].pc = "idle"
    /\ sched[1].has_valid
    /\ sched[1].total = 4
    /\ sched[1].valid = 3
    /\ sched[1].queued = 2
    /\ sched[1].failed = 1
    /\ sched[1].skipped = 1
    /\ sched[1].published = 2

====
